---- MODULE Spec2Model ----
(***************************************************************************)
(* Model of the SmartThings NG integration for Home Assistant             *)
(* (custom_components/smartthingsng): the DeviceBroker's capability slot  *)
(* assignment, the platform modules' entity creation, the push-event      *)
(* handler and the entities' dispatcher subscription.                      *)
(*                                                                         *)
(* Six specifications share the variables:                                 *)
(*   SpecAssign  DeviceBroker.__init__ / _assign_capabilities, one step    *)
(*               per loop iteration, followed by the platforms'            *)
(*               async_setup_entry, for every platform order;              *)
(*   Spec        a constructed broker: connect, disconnect, get_assigned,  *)
(*               any_assigned and _event_handler, one step per statement   *)
(*               group of the handler;                                     *)
(*   SpecEntity  the same broker with SmartThingsEntity objects that       *)
(*               subscribe to and unsubscribe from the update signal.      *)
(*   SpecTimer   the same broker with the token-regeneration timer that    *)
(*               connect registers;                                        *)
(*   SpecSetup   async_setup_entry and async_unload_entry of one config    *)
(*               entry, one step per awaited request, with the outcomes    *)
(*               of the cloud requests;                                    *)
(*   SpecCommand the operations that send a device command: the button     *)
(*               press, the send_command service, the vacuum commands.     *)
(***************************************************************************)
EXTENDS Integers, Sequences, FiniteSets, TLC

VARIABLES
    PLATFORMS,      \* const.PLATFORMS: the platform names, in declared order
    discovered,     \* the `devices` argument of DeviceBroker.__init__ (ids, in order)
    capabilities,   \* device.capabilities of every device id
    ctor,           \* position and locals of __init__ / _assign_capabilities
    _assignments,   \* DeviceBroker._assignments: device id -> (capability -> platform)
    devices,        \* key set of DeviceBroker.devices
    setup_idx,      \* next platform of async_forward_entry_setups(entry, PLATFORMS)
    entities,       \* entities handed to async_add_entities by the platforms
    _regenerate_token_remove,   \* DeviceBroker._regenerate_token_remove
    _event_disconnect,          \* DeviceBroker._event_disconnect
    timers,         \* active async_track_time_interval registrations of the broker
    handlers,       \* active smart_app.connect_event registrations of the broker
    unloaded,       \* async_unload_entry has popped and disconnected the broker
    handler,        \* position and locals of the running _event_handler invocation
    status,         \* device.status of every device in broker.devices
    bus,            \* EVENT_BUTTON events the running invocation fired on hass.bus
    dispatched,     \* SIGNAL_SMARTTHINGS_UPDATE payloads the running invocation sent
    query,          \* value returned by the last get_assigned / any_assigned call
    hass_state,     \* per entity: created, added to hass, or removed from hass
    _dispatcher_remove,         \* SmartThingsEntity._dispatcher_remove per entity
    connected,      \* entities whose async_update_state is connected to the signal
    tasks,          \* async_update_state(devices) calls scheduled by the dispatcher
    _update_count,  \* SmartThingsEntity._update_count per entity
    entry_data,     \* entry.data of the broker's config entry
    _token,         \* DeviceBroker._token: the OAuth token object
    regenerate,     \* position and outcome of the regenerate_refresh_token callback
    setup,          \* position and locals of the async_setup_entry invocation
    stored,         \* hass.data[DOMAIN][DATA_BROKERS] holds the entry's broker
    scenes,         \* key set of DeviceBroker.scenes
    smartapps,      \* manager.smartapps holds the entry's SmartApp
    removal_scheduled,  \* a config_entries.async_remove(entry_id) task was created
    flow_in_progress,   \* flow.async_progress_by_handler(DOMAIN) is not empty
    flows_initiated,    \* flow.async_init tasks created by the integration
    flow_tasks,         \* created flow.async_init tasks that have not started
    forwarded,      \* the platforms of the entry are set up
    services,       \* per service name: hass.services.async_register calls made
    invocation,     \* position and locals of the running command operation
    sent,           \* device commands the running operation has sent
    migrations,     \* per migrated entry: what async_migrate_entry did
    removal,        \* position and locals of the async_remove_entry invocation
    refresh,        \* position and locals of the refresh_device service call
    setting,        \* position and locals of the number or select command
    diagnostics     \* error tracking and device health inputs of one entity

assignVars == <<PLATFORMS, discovered, capabilities, ctor, _assignments, devices>>
setupVars == <<setup_idx, entities>>
brokerVars == <<_regenerate_token_remove, _event_disconnect, timers, handlers,
                unloaded>>
handlerVars == <<handler, status, bus, dispatched, query>>
entityVars == <<hass_state, _dispatcher_remove, connected, tasks, _update_count>>

tokenVars == <<entry_data, _token, regenerate>>
entryVars == <<setup, stored, scenes, smartapps, removal_scheduled,
               flow_in_progress, flows_initiated, flow_tasks, forwarded,
               services>>
commandVars == <<invocation, sent>>
restVars == <<migrations, removal, refresh, setting, diagnostics>>
besidesMigrations == <<removal, refresh, setting, diagnostics>>
besidesRemoval == <<migrations, refresh, setting, diagnostics>>
besidesRefresh == <<migrations, removal, setting, diagnostics>>
besidesSetting == <<migrations, removal, refresh, diagnostics>>
besidesDiagnostics == <<migrations, removal, refresh, setting>>
otherVars == <<tokenVars, entryVars, commandVars, restVars>>

vars == <<assignVars, setupVars, brokerVars, handlerVars, entityVars, otherVars>>

----------------------------------------------------------------------------
(* Universe of the model *)

\* Device ids known to the cloud account.
DeviceIds == {"d1", "d2"}

\* Capabilities a modelled device may report.  robot_cleaner_movement is in
\* no table of a platform that defines get_capabilities.
Capabilities ==
    {"switch", "audio_volume", "media_input_source",
     "robot_cleaner_cleaning_mode", "robot_cleaner_movement"}

\* Capability lists used when two devices are discovered together.
DeviceProfiles ==
    { {"switch", "audio_volume", "media_input_source"},
      {"robot_cleaner_cleaning_mode", "robot_cleaner_movement"},
      {} }

\* Platform names: the five platform modules plus the switch platform of the
\* specification's example.
PlatformNames ==
    {"switch", "button", "media_player", "number", "select", "vacuum"}

\* The empty dict.
EmptySlots == [c \in {} |-> "none"]

\* All orderings of a set of platform names.
RECURSIVE Orderings(_)
Orderings(S) ==
    IF S = {} THEN {<<>>}
    ELSE UNION { { <<p>> \o rest : rest \in Orderings(S \ {p}) } : p \in S }

\* The platform orders the constructor is run under: every ordering of the
\* six platforms, and the two-platform order of the specification's example.
PlatformOrders == Orderings(PlatformNames) \cup {<<"switch", "media_player">>}

----------------------------------------------------------------------------
(* Static capability tables of the platform modules *)

CAPABILITY_TO_BUTTON ==
    {"scene_control", "button", "momentary", "panic_alarm", "water_sensor",
     "smoke_detector", "carbon_monoxide_detector", "chime",
     "media_input_source", "washer_operating_state", "dryer_operating_state",
     "dishwasher_operating_state", "oven_operating_state",
     "robot_cleaner_cleaning_mode"}

\* CAPABILITY_TO_BUTTON[capability]["commands"]
ButtonCommands(capability) ==
    CASE capability = "scene_control" -> {"execute"}
      [] capability \in {"button", "momentary"} -> {"push"}
      [] capability = "panic_alarm" -> {"panic"}
      [] capability \in {"water_sensor", "smoke_detector",
                         "carbon_monoxide_detector"} -> {"test"}
      [] capability = "chime" -> {"chime"}
      [] capability = "media_input_source" -> {"showInputSource"}
      [] capability \in {"washer_operating_state", "dryer_operating_state",
                         "dishwasher_operating_state",
                         "oven_operating_state"} -> {"start", "pause", "stop"}
      [] capability = "robot_cleaner_cleaning_mode" ->
             {"start", "pause", "stop", "homing"}

CAPABILITY_TO_MEDIA_PLAYER ==
    {"tv_channel", "audio_volume", "media_playback", "media_input_source"}

CAPABILITY_TO_NUMBER ==
    {"audio_volume", "refrigeration_setpoint", "oven_setpoint",
     "infrared_level"}

CAPABILITY_TO_SELECT ==
    {"washer_mode", "dryer_mode", "air_conditioner_mode", "dishwasher_mode",
     "oven_mode", "robot_cleaner_cleaning_mode", "media_input_source"}

CAPABILITY_TO_VACUUM ==
    {"robot_cleaner_cleaning_mode", "robot_cleaner_movement"}

\* The switch platform of the specification's example claims {switch}.
CAPABILITY_TO_SWITCH == {"switch"}

----------------------------------------------------------------------------
(* get_capabilities of the platform modules.  None and the empty list are   *)
(* both falsy for the caller and are both the empty set here.               *)

button_get_capabilities(caps) ==
    { capability \in CAPABILITY_TO_BUTTON : capability \in caps }

media_player_get_capabilities(caps) ==
    { capability \in CAPABILITY_TO_MEDIA_PLAYER : capability \in caps }

number_get_capabilities(caps) ==
    { capability \in CAPABILITY_TO_NUMBER : capability \in caps }

select_get_capabilities(caps) ==
    { capability \in CAPABILITY_TO_SELECT : capability \in caps }

switch_get_capabilities(caps) ==
    { capability \in CAPABILITY_TO_SWITCH : capability \in caps }

\* vacuum.py defines get_vacuum_capabilities, not get_capabilities.
get_vacuum_capabilities(caps) ==
    { cap \in caps : cap \in CAPABILITY_TO_VACUUM }

\* hasattr(platform_module, "get_capabilities")
HasGetCapabilities(platform) ==
    platform \in {"switch", "button", "media_player", "number", "select"}

\* platform_module.get_capabilities(capabilities)
get_capabilities(platform, caps) ==
    CASE platform = "button" -> button_get_capabilities(caps)
      [] platform = "media_player" -> media_player_get_capabilities(caps)
      [] platform = "number" -> number_get_capabilities(caps)
      [] platform = "select" -> select_get_capabilities(caps)
      [] platform = "switch" -> switch_get_capabilities(caps)

----------------------------------------------------------------------------
(* DeviceBroker._assign_capabilities *)

\* The body of `for platform in PLATFORMS` without the draw-down: every
\* capability the platform reports is written to its slot and stays in the
\* pool.
AssignPlatformNoDrawDown(platform, pool, slots) ==
    IF ~HasGetCapabilities(platform) THEN [capabilities |-> pool, slots |-> slots]
    ELSE LET assigned == get_capabilities(platform, pool)
         IN  [capabilities |-> pool,
              slots |-> [c \in DOMAIN slots \cup assigned |->
                            IF c \in assigned THEN platform ELSE slots[c]]]

\* The body of `for platform in PLATFORMS`: the platform is offered the pool
\* of still-unclaimed capabilities; what it claims is removed from the pool
\* and written to the slots.
AssignPlatform(platform, pool, slots) ==
    IF ~HasGetCapabilities(platform) THEN [capabilities |-> pool, slots |-> slots]
    ELSE LET assigned == get_capabilities(platform, pool)
             taken == { capability \in assigned : capability \in pool }
         IN  IF assigned = {} THEN [capabilities |-> pool, slots |-> slots]
             ELSE [capabilities |-> pool \ taken,
                   slots |-> [c \in DOMAIN slots \cup taken |->
                                 IF c \in taken THEN platform ELSE slots[c]]]

\* The platform loop for one device, from platform index i on.
RECURSIVE AssignDevice(_, _, _, _)
AssignDevice(order, i, pool, slots) ==
    IF i > Len(order) THEN slots
    ELSE LET r == AssignPlatform(order[i], pool, slots)
         IN  AssignDevice(order, i + 1, r.capabilities, r.slots)

\* _assign_capabilities(devices) as a whole.
AssignCapabilities(order, ids, caps) ==
    [d \in ids |-> AssignDevice(order, 1, caps[d], EmptySlots)]

\* DeviceBroker.get_assigned(device_id, platform)
get_assigned(device_id, platform) ==
    LET slots == IF device_id \in DOMAIN _assignments
                 THEN _assignments[device_id] ELSE EmptySlots
    IN  { key \in DOMAIN slots : slots[key] = platform }

\* DeviceBroker.any_assigned(device_id, platform)
any_assigned(device_id, platform) ==
    LET slots == IF device_id \in DOMAIN _assignments
                 THEN _assignments[device_id] ELSE EmptySlots
    IN  \E key \in DOMAIN slots : slots[key] = platform

----------------------------------------------------------------------------
(* State of a broker that has not been connected and of entities that have  *)
(* not been created.                                                        *)

\* The idle handler: no invocation of _event_handler is running.
NoRequest == [installed_app_id |-> "None", events |-> <<>>]

IdleHandler == [pc |-> "idle", req |-> NoRequest, i |-> 1, updated_devices |-> {}]

NoQuery == [op |-> "None", result |-> {}]

\* Attributes of a device status that the modelled events update.
Attributes == {"button", "switch"}

\* __init__: self._event_disconnect = None; self._regenerate_token_remove = None
InitBroker ==
    /\ _regenerate_token_remove = "None"
    /\ _event_disconnect = "None"
    /\ timers = 0
    /\ handlers = 0
    /\ unloaded = FALSE

InitHandler ==
    /\ handler = IdleHandler
    /\ status = [d \in DeviceIds |-> [a \in Attributes |-> "None"]]
    /\ bus = <<>>
    /\ dispatched = <<>>
    /\ query = NoQuery

InitEntity ==
    /\ hass_state = [e \in {} |-> "created"]
    /\ _dispatcher_remove = [e \in {} |-> "None"]
    /\ connected = {}
    /\ tasks = <<>>
    /\ _update_count = [e \in {} |-> 0]

\* Keys of entry.data: the refresh token and the keys the integration only
\* reads (CONF_ACCESS_TOKEN, CONF_APP_ID, CONF_INSTALLED_APP_ID, ...).
CONF_REFRESH_TOKEN == "refresh_token"

EntryKeys == {CONF_REFRESH_TOKEN, "access_token", "installed_app_id"}

\* entry.data as async_setup_entry leaves it: refresh tokens are numbered in
\* the order the cloud issues them, and the entry holds the token's.
InitialEntryData ==
    [k \in EntryKeys |->
        IF k = CONF_REFRESH_TOKEN THEN 0
        ELSE IF k = "access_token" THEN "personal-access-token"
        ELSE "installed-app-1"]

InitToken ==
    /\ entry_data = InitialEntryData
    /\ _token = [refresh_token |-> 0]
    /\ regenerate = [pc |-> "idle", outcome |-> "none"]

\* Largest number of async_setup_entry calls the model follows.
MaxSetups == 2

\* The services async_register_services registers under DOMAIN.
ServiceNames ==
    {"send_command", "refresh_device", "execute_scene", "get_diagnostics",
     "device_health_check"}

\* async_setup_entry is not running; n calls have been made so far and
\* `loads` of them have returned True.
IdleSetup(n, loads) ==
    [pc |-> "idle", n |-> n, loads |-> loads, remove_entry |-> FALSE, scenes |-> <<>>,
     token |-> 0, found |-> <<>>, devices |-> <<>>, pending |-> {},
     failed |-> {}, sync_called |-> FALSE, synced |-> <<>>, errors |-> {},
     result |-> "none"]

\* No setup has run: no broker is stored, no platform is set up and no
\* service is registered.
InitEntry ==
    /\ setup = IdleSetup(0, 0)
    /\ stored = FALSE
    /\ scenes = {}
    /\ smartapps = FALSE
    /\ removal_scheduled = FALSE
    /\ flow_in_progress = FALSE
    /\ flows_initiated = 0
    /\ flow_tasks = 0
    /\ forwarded = FALSE
    /\ services = [name \in ServiceNames |-> 0]

\* No command operation is running.
IdleCall ==
    [op |-> "none", pc |-> "idle", capabilities |-> {},
     device_capabilities |-> {}, turbo |-> FALSE, fan_speed |-> "None",
     internal_mode |-> "None", result |-> "unset", written |-> FALSE,
     api_raised |-> FALSE, end |-> "none"]

\* self._device.command("main", capability, command, [argument])
DeviceCommand(capability, command, argument) ==
    [capability |-> capability, command |-> command, argument |-> argument]

InitCommand ==
    /\ invocation = IdleCall
    /\ sent = <<>>

\* async_remove_entry is not running; n counts its calls.  all_entries and
\* app_count are -1 until line 268 has read them.
IdleRemoval(n) ==
    [pc |-> "idle", n |-> n, all_entries |-> -1, app_count |-> -1,
     requests |-> <<>>, errors |-> <<>>, result |-> "none"]

\* The refresh_device service is not running; n counts its calls.
IdleRefresh(n) ==
    [pc |-> "idle", n |-> n, device_id |-> "None", device |-> "None",
     outcome |-> "none", raised |-> FALSE]

\* No number or select command is running; n counts the commands.
IdleSetting(n) ==
    [op |-> "none", pc |-> "idle", n |-> n, device_id |-> "None",
     attribute |-> "None", before |-> "None", overtaken |-> FALSE,
     result |-> "unset", written |-> FALSE]

\* What the health status reads of device.status: whether the status has a
\* switch_state and a battery attribute and their values, and the lqi and
\* rssi that getattr(..., None) yields.  An optional number is the set of
\* its values: {} is None.
DeviceHealth(has_switch_state, switch_state, has_battery, battery, lqi, rssi) ==
    [has_switch_state |-> has_switch_state, switch_state |-> switch_state,
     has_battery |-> has_battery, battery |-> battery, lqi |-> lqi,
     rssi |-> rssi]

\* SmartThingsEntity.__init__, lines 937-940: _last_update_time = None,
\* _error_count = 0, _last_error = None; async_update_ha_state is not
\* running.  messages and last_outcome are history: the str(ex) of every
\* failed update in order, and how the latest update ended.
IdleDiagnostics(device_status) ==
    [pc |-> "idle", force_refresh |-> FALSE, _last_update_time |-> "None",
     _error_count |-> 0, _last_error |-> "None", status |-> device_status,
     messages |-> <<>>, last_outcome |-> "none"]

\* async_migrate_entry has been called for no entry, and neither
\* async_remove_entry nor a service nor an entity command is running.
InitRest ==
    /\ migrations = << >>
    /\ removal = IdleRemoval(0)
    /\ refresh = IdleRefresh(0)
    /\ setting = IdleSetting(0)
    /\ diagnostics
         = IdleDiagnostics(DeviceHealth(FALSE, "None", FALSE, {}, {}, {}))

InitOther ==
    /\ InitToken
    /\ InitEntry
    /\ InitCommand
    /\ InitRest

----------------------------------------------------------------------------
(* SpecAssign: construction of the broker, then platform setup *)

\* The device lists the constructor is run on: one device with any
\* capability set, or two devices with capability sets from DeviceProfiles.
InitAssign ==
    /\ PLATFORMS \in PlatformOrders
    /\ \/ /\ discovered = <<"d1">>
          /\ \E c \in SUBSET Capabilities :
                 capabilities = [d \in DeviceIds |-> IF d = "d1" THEN c ELSE {}]
       \/ /\ discovered = <<"d1", "d2">>
          /\ capabilities \in [DeviceIds -> DeviceProfiles]
    /\ ctor = [pc |-> "device", rest |-> discovered, device |-> "none",
               pool |-> {}, slots |-> EmptySlots, idx |-> 1,
               assignments |-> [d \in {} |-> EmptySlots]]
    /\ _assignments = [d \in {} |-> EmptySlots]
    /\ devices = {}
    /\ setup_idx = 1
    /\ entities = {}
    /\ InitBroker
    /\ InitHandler
    /\ InitEntity
    /\ InitOther

\* `for device in devices`: take the next device, copy its capability list.
NextDevice ==
    /\ ctor.pc = "device"
    /\ ctor.rest # <<>>
    /\ ctor' = [ctor EXCEPT !.pc = "platform",
                            !.device = Head(ctor.rest),
                            !.rest = Tail(ctor.rest),
                            !.pool = capabilities[Head(ctor.rest)],
                            !.slots = EmptySlots,
                            !.idx = 1]
    /\ UNCHANGED <<PLATFORMS, discovered, capabilities, _assignments, devices>>
    /\ UNCHANGED <<setupVars, brokerVars, handlerVars, entityVars, otherVars>>

\* The platform loop walking PLATFORMS from its last entry to its first.
PlatformStepReversed ==
    /\ ctor.pc = "platform"
    /\ ctor.idx <= Len(PLATFORMS)
    /\ LET r == AssignPlatform(PLATFORMS[Len(PLATFORMS) + 1 - ctor.idx],
                               ctor.pool, ctor.slots)
       IN  ctor' = [ctor EXCEPT !.pool = r.capabilities,
                                !.slots = r.slots,
                                !.idx = ctor.idx + 1]
    /\ UNCHANGED <<PLATFORMS, discovered, capabilities, _assignments, devices>>
    /\ UNCHANGED <<setupVars, brokerVars, handlerVars, entityVars, otherVars>>

\* One iteration of `for platform in PLATFORMS`.
PlatformStep ==
    /\ ctor.pc = "platform"
    /\ ctor.idx <= Len(PLATFORMS)
    /\ LET r == AssignPlatform(PLATFORMS[ctor.idx], ctor.pool, ctor.slots)
       IN  ctor' = [ctor EXCEPT !.pool = r.capabilities,
                                !.slots = r.slots,
                                !.idx = ctor.idx + 1]
    /\ UNCHANGED <<PLATFORMS, discovered, capabilities, _assignments, devices>>
    /\ UNCHANGED <<setupVars, brokerVars, handlerVars, entityVars, otherVars>>

\* assignments[device.device_id] = slots
StoreSlots ==
    /\ ctor.pc = "platform"
    /\ ctor.idx > Len(PLATFORMS)
    /\ ctor' = [ctor EXCEPT
                  !.pc = "device",
                  !.assignments =
                      [d \in DOMAIN ctor.assignments \cup {ctor.device} |->
                          IF d = ctor.device THEN ctor.slots
                          ELSE ctor.assignments[d]]]
    /\ UNCHANGED <<PLATFORMS, discovered, capabilities, _assignments, devices>>
    /\ UNCHANGED <<setupVars, brokerVars, handlerVars, entityVars, otherVars>>

\* return assignments; self._assignments = ...; self.devices = {...}
FinishInit ==
    /\ ctor.pc = "device"
    /\ ctor.rest = <<>>
    /\ ctor' = [ctor EXCEPT !.pc = "done"]
    /\ _assignments' = ctor.assignments
    /\ devices' = { discovered[i] : i \in 1..Len(discovered) }
    /\ UNCHANGED <<PLATFORMS, discovered, capabilities>>
    /\ UNCHANGED <<setupVars, brokerVars, handlerVars, entityVars, otherVars>>

----------------------------------------------------------------------------
(* async_setup_entry of the platform modules.  An entity is recorded with   *)
(* the platform that created it, its device and the capabilities it         *)
(* presents.                                                                *)

Entity(platform, device_id, caps, command) ==
    [platform |-> platform, device_id |-> device_id, capabilities |-> caps,
     command |-> command]

\* button.async_setup_entry: one button per command of every table
\* capability in device.capabilities.
ButtonEntities ==
    { Entity("button", t[1], {t[2]}, t[3]) :
        t \in { u \in devices \X CAPABILITY_TO_BUTTON \X
                      {"execute", "push", "panic", "test", "chime",
                       "showInputSource", "start", "pause", "stop", "homing"} :
                  /\ u[2] \in capabilities[u[1]]
                  /\ u[3] \in ButtonCommands(u[2]) } }

\* media_player.async_setup_entry: one media player per device for which
\* get_capabilities(device.capabilities) is not empty.
MediaPlayerEntities ==
    { Entity("media_player", d,
             media_player_get_capabilities(capabilities[d]), "") :
        d \in { x \in devices :
                  media_player_get_capabilities(capabilities[x]) # {} } }

\* number.async_setup_entry: one number per capability assigned to "number".
NumberEntities ==
    { Entity("number", t[1], {t[2]}, "") :
        t \in { u \in devices \X CAPABILITY_TO_NUMBER :
                  u[2] \in get_assigned(u[1], "number") } }

\* select.async_setup_entry: one select per capability assigned to "select".
SelectEntities ==
    { Entity("select", t[1], {t[2]}, "") :
        t \in { u \in devices \X CAPABILITY_TO_SELECT :
                  u[2] \in get_assigned(u[1], "select") } }

\* vacuum.async_setup_entry: one vacuum per device for which
\* get_vacuum_capabilities(device.capabilities) is not empty.
VacuumEntities ==
    { Entity("vacuum", d, get_vacuum_capabilities(capabilities[d]), "") :
        d \in { x \in devices :
                  get_vacuum_capabilities(capabilities[x]) # {} } }

\* The switch platform: one switch per device with a capability assigned to
\* "switch".
SwitchEntities ==
    { Entity("switch", d, get_assigned(d, "switch"), "") :
        d \in { x \in devices : any_assigned(x, "switch") } }

\* async_forward_entry_setups reached platform p: its async_setup_entry runs.
ForwardSetup(p, created) ==
    /\ ctor.pc = "done"
    /\ setup_idx <= Len(PLATFORMS)
    /\ PLATFORMS[setup_idx] = p
    /\ entities' = entities \cup created
    /\ setup_idx' = setup_idx + 1
    /\ UNCHANGED <<assignVars, brokerVars, handlerVars, entityVars, otherVars>>

button_async_setup_entry == ForwardSetup("button", ButtonEntities)

media_player_async_setup_entry == ForwardSetup("media_player", MediaPlayerEntities)

number_async_setup_entry == ForwardSetup("number", NumberEntities)

select_async_setup_entry == ForwardSetup("select", SelectEntities)

vacuum_async_setup_entry == ForwardSetup("vacuum", VacuumEntities)

switch_async_setup_entry == ForwardSetup("switch", SwitchEntities)

NextAssign ==
    \/ NextDevice
    \/ PlatformStep
    \/ StoreSlots
    \/ FinishInit
    \/ button_async_setup_entry
    \/ media_player_async_setup_entry
    \/ number_async_setup_entry
    \/ select_async_setup_entry
    \/ vacuum_async_setup_entry
    \/ switch_async_setup_entry

SpecAssign == InitAssign /\ [][NextAssign]_vars

----------------------------------------------------------------------------
(* Claims about the slot assignment *)

\* C1: every capability in a device's slots belongs to the device's original
\* capability list, in the slots under construction, in the stored
\* assignments and in the broker's final table; and a capability is assigned
\* at most once: while the platform loop of a device runs, a slot that has
\* been written is never given to another platform.
C1_SlotsWithinCapabilities ==
    /\ ctor.pc = "platform" => DOMAIN ctor.slots \subseteq capabilities[ctor.device]
    /\ \A d \in DOMAIN ctor.assignments :
           DOMAIN ctor.assignments[d] \subseteq capabilities[d]
    /\ \A d \in DOMAIN _assignments :
           DOMAIN _assignments[d] \subseteq capabilities[d]

C1_SlotWrittenOnce ==
    (ctor.pc = "platform" /\ ctor'.pc = "platform") =>
        \A c \in DOMAIN ctor.slots :
            /\ c \in DOMAIN ctor'.slots
            /\ ctor'.slots[c] = ctor.slots[c]

C1_AtMostOnePlatform ==
    [](C1_SlotsWithinCapabilities) /\ [][C1_SlotWrittenOnce]_vars

\* C1 witness: a constructed broker in which a device holds two capabilities
\* that each appear in the tables of two platforms, assigned to different
\* platforms.
C1_Witness ==
    /\ ctor.pc = "done"
    /\ "d1" \in DOMAIN _assignments
    /\ {"audio_volume", "media_input_source"} \subseteq DOMAIN _assignments["d1"]
    /\ _assignments["d1"]["audio_volume"] = "number"
    /\ _assignments["d1"]["media_input_source"] = "button"

\* The positions in PLATFORMS of the platforms whose get_capabilities, offered
\* the device's whole capability list, reports capability c.
Claimers(d, c) ==
    { i \in 1..Len(PLATFORMS) :
        /\ HasGetCapabilities(PLATFORMS[i])
        /\ c \in get_capabilities(PLATFORMS[i], capabilities[d]) }

\* C2: in a constructed broker every capability of a device is assigned to
\* the first platform of PLATFORMS that claims it, a capability no platform
\* claims has no slot, and capabilities {switch, audio_volume} under the
\* order [switch, media_player] give {switch: switch, audio_volume:
\* media_player}.
C2_FirstPlatformWins ==
    ctor.pc = "done" =>
        /\ \A d \in devices : \A c \in capabilities[d] :
               IF Claimers(d, c) = {}
               THEN c \notin DOMAIN _assignments[d]
               ELSE /\ c \in DOMAIN _assignments[d]
                    /\ \E i \in Claimers(d, c) :
                         /\ \A j \in Claimers(d, c) : i <= j
                         /\ _assignments[d][c] = PLATFORMS[i]
        /\ (PLATFORMS = <<"switch", "media_player">>
            /\ capabilities["d1"] = {"switch", "audio_volume"}) =>
               _assignments["d1"] =
                   [c \in {"switch", "audio_volume"} |->
                       IF c = "switch" THEN "switch" ELSE "media_player"]

\* C2 witness: the example of the specification has been constructed.
C2_Witness ==
    /\ ctor.pc = "done"
    /\ PLATFORMS = <<"switch", "media_player">>
    /\ capabilities["d1"] = {"switch", "audio_volume"}
    /\ DOMAIN _assignments["d1"] = {"switch", "audio_volume"}

\* C3: every entity a platform's async_setup_entry created presents only
\* capabilities the broker assigned to that platform, and no capability of a
\* device is presented by two platforms.
C3_EntitiesFollowSlots ==
    /\ \A e \in entities : \A c \in e.capabilities :
           c \in get_assigned(e.device_id, e.platform)
    /\ \A e1 \in entities : \A e2 \in entities :
           (e1.device_id = e2.device_id
            /\ e1.capabilities \cap e2.capabilities # {}) =>
               e1.platform = e2.platform

----------------------------------------------------------------------------
(* A constructed broker: connect, disconnect, the queries and the push-     *)
(* event handler.                                                           *)

\* Longest event batch of one webhook call.
MaxBatch == 2

\* entry.data[CONF_INSTALLED_APP_ID] of the broker's config entry, and the
\* id of another installation under the same parent SmartApp.
InstalledAppId == "installed-app-1"

ForeignAppId == "installed-app-2"

\* pysmartapp.event.EVENT_TYPE_DEVICE and another event type.
EVENT_TYPE_DEVICE == "DEVICE_EVENT"

EVENT_TYPE_TIMER == "TIMER_EVENT"

\* A device id the broker does not hold.
UnknownDeviceId == "dX"

\* Events of a batch.  component_id, location_id and data are carried
\* through unchanged by the handler and are left out.  Events of another
\* type are given the fields of a button event, the ones that would have the
\* most effect if they were processed.
DeviceEvents ==
    [event_type : {EVENT_TYPE_DEVICE},
     device_id : DeviceIds \cup {UnknownDeviceId},
     capability : {"button", "switch"},
     attribute : Attributes,
     value : {"pushed"}]

OtherEvents ==
    [event_type : {EVENT_TYPE_TIMER},
     device_id : DeviceIds \cup {UnknownDeviceId},
     capability : {"button"},
     attribute : {"button"},
     value : {"pushed"}]

Events == DeviceEvents \cup OtherEvents

\* Sequences over S of length at most n.
SeqUpTo(S, n) == UNION { [1..k -> S] : k \in 0..n }

\* The webhook requests delivered to the broker's handler.
Requests ==
    [installed_app_id : {InstalledAppId, ForeignAppId},
     events : SeqUpTo(Events, MaxBatch)]

\* The platform order and the devices of the running broker.
RunPlatforms ==
    <<"switch", "button", "media_player", "number", "select", "vacuum">>

RunCapabilities ==
    [d \in DeviceIds |->
        IF d = "d1" THEN {"switch", "audio_volume", "media_input_source"}
        ELSE {"robot_cleaner_cleaning_mode", "robot_cleaner_movement"}]

\* State after DeviceBroker.__init__ has returned.
Constructed(order, caps) ==
    /\ PLATFORMS = order
    /\ discovered = <<"d1", "d2">>
    /\ capabilities = caps
    /\ _assignments = AssignCapabilities(order, DeviceIds, caps)
    /\ devices = DeviceIds
    /\ ctor = [pc |-> "done", rest |-> <<>>, device |-> "d2", pool |-> {},
               slots |-> _assignments["d2"], idx |-> Len(order) + 1,
               assignments |-> _assignments]

Init ==
    /\ Constructed(RunPlatforms, RunCapabilities)
    /\ setup_idx = 1
    /\ entities = {}
    /\ InitBroker
    /\ InitHandler
    /\ InitEntity
    /\ InitOther

\* A handler that gives up the event loop inside its `for` loop.
IdleInsideLoop == handler.pc \in {"idle", "loop"}

\* The calls below are made between invocations of the handler: the handler
\* has no suspension point.
Idle == handler.pc = "idle"

\* connect that registers the token timer without keeping its remover.
connectDroppingTimerRemover ==
    /\ Idle
    /\ ~unloaded
    /\ _event_disconnect = "None"
    /\ timers' = timers + 1
    /\ _event_disconnect' = "remover"
    /\ handlers' = handlers + 1
    /\ UNCHANGED <<_regenerate_token_remove, unloaded, assignVars, setupVars,
                   handlerVars, entityVars, otherVars>>

\* DeviceBroker.connect, called by async_setup_entry on the new broker: the
\* token timer and the event handler are registered and their removers kept.
connect ==
    /\ Idle
    /\ ~unloaded
    /\ _event_disconnect = "None"
    /\ _regenerate_token_remove' = "remover"
    /\ timers' = timers + 1
    /\ _event_disconnect' = "remover"
    /\ handlers' = handlers + 1
    /\ UNCHANGED <<unloaded, assignVars, setupVars, handlerVars, entityVars, otherVars>>

\* disconnect that also drops the broker's tables.
disconnectClearingTables ==
    /\ Idle
    /\ ~unloaded
    /\ unloaded' = TRUE
    /\ timers' = IF _regenerate_token_remove # "None" THEN timers - 1 ELSE timers
    /\ handlers' = IF _event_disconnect # "None" THEN handlers - 1 ELSE handlers
    /\ _assignments' = [d \in {} |-> EmptySlots]
    /\ devices' = {}
    /\ UNCHANGED <<_regenerate_token_remove, _event_disconnect,
                   PLATFORMS, discovered, capabilities, ctor,
                   setupVars, handlerVars, entityVars, otherVars>>

\* DeviceBroker.disconnect, called by async_unload_entry on the popped broker:
\* each remover that is set is invoked.
disconnect ==
    /\ Idle
    /\ ~unloaded
    /\ unloaded' = TRUE
    /\ timers' = IF _regenerate_token_remove # "None" THEN timers - 1 ELSE timers
    /\ handlers' = IF _event_disconnect # "None" THEN handlers - 1 ELSE handlers
    /\ UNCHANGED <<_regenerate_token_remove, _event_disconnect,
                   assignVars, setupVars, handlerVars, entityVars, otherVars>>

\* A caller asks get_assigned(device_id, platform).
GetAssigned ==
    /\ Idle
    /\ \E device_id \in DeviceIds \cup {UnknownDeviceId} :
       \E platform \in PlatformNames :
           query' = [op |-> "get_assigned",
                     result |-> get_assigned(device_id, platform)]
    /\ UNCHANGED <<handler, status, bus, dispatched>>
    /\ UNCHANGED <<assignVars, setupVars, brokerVars, entityVars, otherVars>>

\* A caller asks any_assigned(device_id, platform).
AnyAssigned ==
    /\ Idle
    /\ \E device_id \in DeviceIds \cup {UnknownDeviceId} :
       \E platform \in PlatformNames :
           query' = [op |-> "any_assigned",
                     result |-> {any_assigned(device_id, platform)}]
    /\ UNCHANGED <<handler, status, bus, dispatched>>
    /\ UNCHANGED <<assignVars, setupVars, brokerVars, entityVars, otherVars>>

----------------------------------------------------------------------------
(* DeviceBroker._event_handler *)

\* Number of async_update_state calls the dispatcher may hold scheduled.
MaxPending == 2

\* The SmartApp calls the connected handler with a request.
EventHandlerEnter(reqs) ==
    /\ Idle
    /\ handlers > 0
    /\ Len(tasks) + Cardinality(connected) <= MaxPending
    /\ \E req \in reqs :
           handler' = [pc |-> "check", req |-> req, i |-> 1,
                       updated_devices |-> {}]
    /\ query' = NoQuery
    /\ UNCHANGED <<status, bus, dispatched>>
    /\ UNCHANGED <<assignVars, setupVars, brokerVars, entityVars, otherVars>>

\* The installed-app check without the early return.
CheckInstalledAppNoReturn ==
    /\ handler.pc = "check"
    /\ handler' = [handler EXCEPT !.pc = "loop", !.updated_devices = {}]
    /\ UNCHANGED <<status, bus, dispatched, query>>
    /\ UNCHANGED <<assignVars, setupVars, brokerVars, entityVars, otherVars>>

\* if req.installed_app_id != self._installed_app_id: return
\* updated_devices = set()
CheckInstalledApp ==
    /\ handler.pc = "check"
    /\ handler' = IF handler.req.installed_app_id # InstalledAppId
                  THEN [handler EXCEPT !.pc = "returned"]
                  ELSE [handler EXCEPT !.pc = "loop", !.updated_devices = {}]
    /\ UNCHANGED <<status, bus, dispatched, query>>
    /\ UNCHANGED <<assignVars, setupVars, brokerVars, entityVars, otherVars>>

\* The two `continue` guards with the event-type guard left out.
EventProcessedAnyType(evt) ==
    evt.device_id \in devices

\* The two `continue` guards of the loop: the event is processed when it is
\* a device event and self.devices.get(evt.device_id) finds a device.
EventProcessed(evt) ==
    /\ evt.event_type = EVENT_TYPE_DEVICE
    /\ evt.device_id \in devices

\* The button test with `or` in place of `and`.
IsButtonEventEither(evt) ==
    evt.capability = "button" \/ evt.attribute = "button"

\* evt.capability == Capability.button and evt.attribute == Attribute.button
IsButtonEvent(evt) ==
    evt.capability = "button" /\ evt.attribute = "button"

\* device.status.apply_attribute_update(component_id, capability, attribute,
\* value, data=...) on the device with evt.device_id.
apply_attribute_update(st, evt) ==
    [st EXCEPT ![evt.device_id][evt.attribute] = evt.value]

\* The data of the EVENT_BUTTON event.
ButtonEventData(evt) ==
    [device_id |-> evt.device_id, value |-> evt.value]

\* The loop body with the dispatcher call indented into it.
ProcessEventDispatching ==
    /\ handler.pc = "loop"
    /\ handler.i <= Len(handler.req.events)
    /\ LET evt == handler.req.events[handler.i]
       IN  IF ~EventProcessed(evt)
           THEN /\ handler' = [handler EXCEPT !.i = handler.i + 1]
                /\ UNCHANGED <<status, bus, dispatched>>
           ELSE /\ status' = apply_attribute_update(status, evt)
                /\ bus' = IF IsButtonEvent(evt)
                          THEN Append(bus, ButtonEventData(evt))
                          ELSE bus
                /\ handler' = [handler EXCEPT
                                 !.i = handler.i + 1,
                                 !.updated_devices =
                                     handler.updated_devices \cup {evt.device_id}]
                /\ dispatched' =
                       Append(dispatched,
                              handler.updated_devices \cup {evt.device_id})
    /\ UNCHANGED <<query, assignVars, setupVars, brokerVars, entityVars, otherVars>>

\* One iteration of `for evt in req.events`.
ProcessEvent ==
    /\ handler.pc = "loop"
    /\ handler.i <= Len(handler.req.events)
    /\ LET evt == handler.req.events[handler.i]
       IN  IF ~EventProcessed(evt)
           THEN /\ handler' = [handler EXCEPT !.i = handler.i + 1]
                /\ UNCHANGED <<status, bus>>
           ELSE /\ status' = apply_attribute_update(status, evt)
                /\ bus' = IF IsButtonEvent(evt)
                          THEN Append(bus, ButtonEventData(evt))
                          ELSE bus
                /\ handler' = [handler EXCEPT
                                 !.i = handler.i + 1,
                                 !.updated_devices =
                                     handler.updated_devices \cup {evt.device_id}]
    /\ UNCHANGED <<dispatched, query>>
    /\ UNCHANGED <<assignVars, setupVars, brokerVars, entityVars, otherVars>>

\* The async_update_state calls the dispatcher schedules for a payload: one
\* per connected target.
RECURSIVE Scheduled(_, _)
Scheduled(targets, payload) ==
    IF targets = {} THEN <<>>
    ELSE LET e == CHOOSE x \in targets : TRUE
         IN  <<[entity |-> e, devices |-> payload]>>
                 \o Scheduled(targets \ {e}, payload)

\* The dispatcher call sending the keys of self.devices.
DispatchAllDevices ==
    /\ handler.pc = "loop"
    /\ handler.i > Len(handler.req.events)
    /\ dispatched' = Append(dispatched, devices)
    /\ tasks' = tasks \o Scheduled(connected, devices)
    /\ handler' = [handler EXCEPT !.pc = "returned"]
    /\ UNCHANGED <<status, bus, query>>
    /\ UNCHANGED <<hass_state, _dispatcher_remove, connected, _update_count>>
    /\ UNCHANGED <<assignVars, setupVars, brokerVars, otherVars>>

\* async_dispatcher_send(self._hass, SIGNAL_SMARTTHINGS_UPDATE, updated_devices)
Dispatch ==
    /\ handler.pc = "loop"
    /\ handler.i > Len(handler.req.events)
    /\ dispatched' = Append(dispatched, handler.updated_devices)
    /\ tasks' = tasks \o Scheduled(connected, handler.updated_devices)
    /\ handler' = [handler EXCEPT !.pc = "returned"]
    /\ UNCHANGED <<status, bus, query>>
    /\ UNCHANGED <<hass_state, _dispatcher_remove, connected, _update_count>>
    /\ UNCHANGED <<assignVars, setupVars, brokerVars, otherVars>>

\* The invocation ends; what it fired and sent has been handed to hass.
EventHandlerReturn ==
    /\ handler.pc = "returned"
    /\ handler' = IdleHandler
    /\ bus' = <<>>
    /\ dispatched' = <<>>
    /\ UNCHANGED <<status, query>>
    /\ UNCHANGED <<assignVars, setupVars, brokerVars, entityVars, otherVars>>

Next ==
    \/ connect
    \/ disconnect
    \/ GetAssigned
    \/ AnyAssigned
    \/ EventHandlerEnter(Requests)
    \/ CheckInstalledApp
    \/ ProcessEvent
    \/ Dispatch
    \/ EventHandlerReturn

Spec == Init /\ [][Next]_vars

----------------------------------------------------------------------------
(* SmartThingsEntity: subscription to the update signal *)

\* Largest _update_count the model follows.
MaxUpdates == 1

\* The platform order and the devices of the broker whose entities are
\* followed: a media player on d1, a vacuum on d2.
EntityPlatforms ==
    <<"switch", "button", "media_player", "number", "select", "vacuum">>

EntityCapabilities ==
    [d \in DeviceIds |->
        IF d = "d1" THEN {"audio_volume"} ELSE {"robot_cleaner_movement"}]

\* The batches delivered while the entities are followed: switch events.
EntityRequests ==
    [installed_app_id : {InstalledAppId, ForeignAppId},
     events : SeqUpTo({ evt \in DeviceEvents :
                          evt.capability = "switch" /\ evt.attribute = "switch" },
                      MaxBatch)]

\* State after async_setup_entry: the broker is constructed and connected
\* and every platform has created its entities (SmartThingsEntity.__init__:
\* _dispatcher_remove = None, _update_count = 0).
InitEntities ==
    /\ Constructed(EntityPlatforms, EntityCapabilities)
    /\ setup_idx = Len(EntityPlatforms) + 1
    /\ entities = ButtonEntities \cup MediaPlayerEntities \cup NumberEntities
                    \cup SelectEntities \cup VacuumEntities \cup SwitchEntities
    /\ _regenerate_token_remove = "remover"
    /\ _event_disconnect = "remover"
    /\ timers = 1
    /\ handlers = 1
    /\ unloaded = FALSE
    /\ InitHandler
    /\ hass_state = [e \in entities |-> "created"]
    /\ _dispatcher_remove = [e \in entities |-> "None"]
    /\ connected = {}
    /\ tasks = <<>>
    /\ _update_count = [e \in entities |-> 0]
    /\ InitOther

\* SmartThingsEntity.async_added_to_hass: async_update_state is connected to
\* SIGNAL_SMARTTHINGS_UPDATE and the remover kept.
async_added_to_hass ==
    /\ Idle
    /\ \E e \in entities :
         /\ hass_state[e] = "created"
         /\ hass_state' = [hass_state EXCEPT ![e] = "added"]
         /\ _dispatcher_remove' = [_dispatcher_remove EXCEPT ![e] = "remover"]
         /\ connected' = connected \cup {e}
    /\ UNCHANGED <<tasks, _update_count>>
    /\ UNCHANGED <<assignVars, setupVars, brokerVars, handlerVars, otherVars>>

\* SmartThingsEntity.async_will_remove_from_hass: the remover, when set, is
\* called and disconnects async_update_state.
async_will_remove_from_hass ==
    /\ Idle
    /\ \E e \in entities :
         /\ hass_state[e] = "added"
         /\ hass_state' = [hass_state EXCEPT ![e] = "removed"]
         /\ connected' = IF _dispatcher_remove[e] # "None"
                         THEN connected \ {e} ELSE connected
    /\ UNCHANGED <<_dispatcher_remove, tasks, _update_count>>
    /\ UNCHANGED <<assignVars, setupVars, brokerVars, handlerVars, otherVars>>

\* The membership test of async_update_state left out.
RefreshesAlways(entity, payload) == TRUE

\* if self._device.device_id in devices
Refreshes(entity, payload) == entity.device_id \in payload

\* The scheduled async_update_state(devices) call at the head of the event
\* loop's queue runs: when the entity's device id is in the payload it awaits
\* async_update_ha_state(True), which counts the update.
async_update_state ==
    /\ Idle
    /\ tasks # <<>>
    /\ LET e == Head(tasks).entity
       IN  IF Refreshes(e, Head(tasks).devices)
           THEN /\ _update_count[e] < MaxUpdates
                /\ _update_count' = [_update_count EXCEPT ![e] = @ + 1]
           ELSE UNCHANGED _update_count
    /\ tasks' = Tail(tasks)
    /\ UNCHANGED <<hass_state, _dispatcher_remove, connected>>
    /\ UNCHANGED <<assignVars, setupVars, brokerVars, handlerVars, otherVars>>

NextEntity ==
    \/ async_added_to_hass
    \/ async_will_remove_from_hass
    \/ async_update_state
    \/ EventHandlerEnter(EntityRequests)
    \/ CheckInstalledApp
    \/ ProcessEvent
    \/ Dispatch
    \/ EventHandlerReturn

SpecEntity == InitEntities /\ [][NextEntity]_vars

----------------------------------------------------------------------------
(* Claims about the push-event handler *)

\* The running invocation was given a batch of another installation.
ForeignBatch(h) ==
    h.pc # "idle" /\ h.req.installed_app_id # InstalledAppId

\* The running invocation was given a batch of the broker's installation.
AcceptedBatch(h) ==
    h.pc # "idle" /\ h.req.installed_app_id = InstalledAppId

\* C4: from the call to the return of an invocation whose batch carries
\* another installed app id, no step changes a device status, fires a button
\* event, sends a dispatcher signal or schedules an entity update.
C4_ForeignBatchStep ==
    (ForeignBatch(handler) \/ ForeignBatch(handler')) =>
        /\ status' = status
        /\ bus' = bus /\ bus = <<>>
        /\ dispatched' = dispatched /\ dispatched = <<>>
        /\ tasks' = tasks

C4_ForeignBatchNoEffect == [][C4_ForeignBatchStep]_vars

\* C4 witness: an invocation has returned from a foreign batch that holds a
\* button event for a known device.
C4_Witness ==
    /\ handler.pc = "returned"
    /\ handler.req.installed_app_id = ForeignAppId
    /\ \E k \in 1..Len(handler.req.events) :
           /\ handler.req.events[k].event_type = EVENT_TYPE_DEVICE
           /\ handler.req.events[k].device_id = "d1"
           /\ handler.req.events[k].capability = "button"
           /\ handler.req.events[k].attribute = "button"

\* The ids of the devices of broker.devices that have at least one
\* device-type event among the first n events of the batch.
TouchedBy(events, n) ==
    { id \in devices :
        \E k \in 1..n : /\ events[k].event_type = EVENT_TYPE_DEVICE
                        /\ events[k].device_id = id }

\* C5: when an invocation on an accepted batch has returned, every payload
\* it sent is exactly the set of known device ids that have a device-type
\* event in the batch, and a payload has been sent.
C5_DispatchNamesTouched ==
    (AcceptedBatch(handler) /\ handler.pc = "returned") =>
        /\ dispatched # <<>>
        /\ \A k \in 1..Len(dispatched) :
               /\ dispatched[k] =
                      TouchedBy(handler.req.events, Len(handler.req.events))
               /\ dispatched[k] \subseteq DOMAIN status

\* C5 witness: a batch of two events for the same known device has been
\* dispatched as one id, next to an unknown id that is not named.
C5_Witness ==
    /\ handler.pc = "returned"
    /\ handler.req.installed_app_id = InstalledAppId
    /\ Len(handler.req.events) = 2
    /\ handler.req.events[1].device_id = "d1"
    /\ handler.req.events[2].device_id = "d1"
    /\ handler.req.events[1].event_type = EVENT_TYPE_DEVICE
    /\ handler.req.events[2].event_type = EVENT_TYPE_DEVICE
    /\ dispatched = << {"d1"} >>

\* C6: an invocation on an accepted batch has sent nothing while it checks
\* the request and runs the event loop, and has sent exactly one payload when
\* it has returned, whatever the number of events.
C6_OneDispatchAtEnd ==
    AcceptedBatch(handler) =>
        /\ handler.pc \in {"check", "loop"} => dispatched = <<>>
        /\ handler.pc = "returned" => Len(dispatched) = 1

\* C6 witness: a batch of two processed events for two devices has returned
\* with one payload.
C6_Witness ==
    /\ handler.pc = "returned"
    /\ handler.req.installed_app_id = InstalledAppId
    /\ Len(handler.req.events) = 2
    /\ handler.updated_devices = {"d1", "d2"}
    /\ Len(dispatched) = 1

\* C7: a loop iteration on an event that is not a device event, or whose
\* device id is not in broker.devices, changes no status, fires nothing and
\* leaves the touched set alone; an iteration on any other event sets the
\* event's attribute to the event's value on the device with the event's id,
\* leaves every other device's status unchanged and adds that id to the
\* touched set.
C7_EventStep ==
    (handler.pc = "loop" /\ handler'.pc = "loop"
     /\ handler'.i = handler.i + 1) =>
        LET evt == handler.req.events[handler.i]
        IN  IF evt.event_type # EVENT_TYPE_DEVICE \/ evt.device_id \notin devices
            THEN /\ status' = status
                 /\ bus' = bus
                 /\ handler'.updated_devices = handler.updated_devices
            ELSE /\ status'[evt.device_id][evt.attribute] = evt.value
                 /\ \A a \in Attributes \ {evt.attribute} :
                        status'[evt.device_id][a] = status[evt.device_id][a]
                 /\ \A d \in DeviceIds \ {evt.device_id} :
                        status'[d] = status[d]
                 /\ handler'.updated_devices =
                        handler.updated_devices \cup {evt.device_id}

C7_OnlyMatchingDeviceMutated == [][C7_EventStep]_vars

\* C7 witness: the loop has passed a timer event for a known device and an
\* event for an unknown device without touching anything.
C7_Witness ==
    /\ handler.pc = "loop"
    /\ handler.i = 3
    /\ handler.req.events[1].event_type = EVENT_TYPE_TIMER
    /\ handler.req.events[1].device_id = "d1"
    /\ handler.req.events[2].event_type = EVENT_TYPE_DEVICE
    /\ handler.req.events[2].device_id = UnknownDeviceId
    /\ handler.updated_devices = {}
    /\ bus = <<>>

\* The positions among the first n events of the batch that hold a processed
\* event with capability button and attribute button.
ButtonPositions(events, n) ==
    { k \in 1..n :
        /\ events[k].event_type = EVENT_TYPE_DEVICE
        /\ events[k].device_id \in devices
        /\ events[k].capability = "button"
        /\ events[k].attribute = "button" }

\* C8: the number of EVENT_BUTTON events an invocation has fired equals the
\* number of processed events so far with capability button and attribute
\* button; events with another capability or attribute fire none.
C8_OneButtonEventEach ==
    /\ handler.pc = "loop" =>
           Len(bus) = Cardinality(ButtonPositions(handler.req.events,
                                                  handler.i - 1))
    /\ (AcceptedBatch(handler) /\ handler.pc = "returned") =>
           Len(bus) = Cardinality(ButtonPositions(handler.req.events,
                                                  Len(handler.req.events)))

\* C8 witness: a batch with one button/button event and one button/switch
\* event for known devices has fired one EVENT_BUTTON.
C8_Witness ==
    /\ handler.pc = "returned"
    /\ handler.req.installed_app_id = InstalledAppId
    /\ Len(handler.req.events) = 2
    /\ \A k \in 1..2 : /\ handler.req.events[k].event_type = EVENT_TYPE_DEVICE
                       /\ handler.req.events[k].device_id \in devices
                       /\ handler.req.events[k].capability = "button"
    /\ handler.req.events[1].attribute = "button"
    /\ handler.req.events[2].attribute = "switch"
    /\ Len(bus) = 1

\* C10: no step of connect, disconnect, get_assigned, any_assigned or
\* _event_handler changes the slot assignment or the key set of
\* broker.devices, and the assignment is the one the constructor built.
C10_AssignmentStep ==
    /\ _assignments' = _assignments
    /\ devices' = devices
    /\ _assignments = ctor.assignments

C10_AssignmentsImmutable == [][C10_AssignmentStep]_vars

\* C10 witness: the broker has been connected, has processed an event, has
\* answered a query and has been disconnected.
C10_Witness ==
    /\ unloaded
    /\ _event_disconnect = "remover"
    /\ status["d1"]["switch"] = "pushed"
    /\ query.op = "any_assigned"
    /\ _assignments["d1"]["switch"] = "switch"

----------------------------------------------------------------------------
(* Claims about the entities *)

\* The entities of tasks k..Len(q) of a task queue q.
TaskEntities(q, k) == { q[j].entity : j \in k..Len(q) }

\* C9: a dispatch schedules exactly one async_update_state call, carrying the
\* dispatched set, for every entity that has been added to hass and not
\* removed, and none for any other entity; a scheduled call counts a forced
\* refresh of its entity if and only if the entity's device id is in the set
\* it carries, and nothing else refreshes an entity.
C9_DispatchStep ==
    dispatched' # dispatched /\ dispatched' # <<>> =>
        LET payload == dispatched'[Len(dispatched')]
            added == { e \in entities : hass_state[e] = "added" }
        IN  /\ Len(tasks') = Len(tasks) + Cardinality(added)
            /\ \A j \in 1..Len(tasks) : tasks'[j] = tasks[j]
            /\ TaskEntities(tasks', Len(tasks) + 1) = added
            /\ \A j \in (Len(tasks) + 1)..Len(tasks') :
                   tasks'[j].devices = payload

C9_RefreshStep ==
    \A e \in entities :
        LET taken == /\ tasks # <<>>
                     /\ tasks' = Tail(tasks)
                     /\ Head(tasks).entity = e
                     /\ e.device_id \in Head(tasks).devices
        IN  /\ taken => _update_count'[e] = _update_count[e] + 1
            /\ ~taken => _update_count'[e] = _update_count[e]

C9_EntityRefreshIffNamed == [][C9_DispatchStep /\ C9_RefreshStep]_vars

\* C9 witness: a dispatch naming d1 alone reached the added entities on d1
\* and d2; both calls have run, the entity on d1 has refreshed and the one on
\* d2 has not, and the entity on d2 has since been removed.
C9_Witness ==
    /\ tasks = <<>>
    /\ \E e1 \in entities : \E e2 \in entities :
         /\ e1.device_id = "d1" /\ hass_state[e1] = "added"
         /\ _update_count[e1] = 1
         /\ e2.device_id = "d2" /\ hass_state[e2] = "removed"
         /\ _update_count[e2] = 0
    /\ status["d1"]["switch"] = "pushed"
    /\ status["d2"]["switch"] = "None"

----------------------------------------------------------------------------
(* DeviceBroker.connect: the token-regeneration timer                       *)

\* Refresh tokens the cloud issues while the broker is followed.
MaxRefreshes == 2

\* The batches delivered while the timer is followed.
TimerRequests == EntityRequests

\* async_track_time_interval calls regenerate_refresh_token(now): the
\* callback runs up to `await self._token.refresh(...)`.
TimerFires ==
    /\ Idle
    /\ timers > 0
    /\ regenerate.pc = "idle"
    /\ _token.refresh_token < MaxRefreshes
    /\ regenerate' = [pc |-> "refresh", outcome |-> "none"]
    /\ UNCHANGED <<entry_data, _token>>
    /\ UNCHANGED <<assignVars, setupVars, brokerVars, handlerVars, entityVars, commandVars, restVars,
                   entryVars>>

\* A callback that stores a data dict holding the refresh token alone.
RefreshReturnsReplacingData ==
    /\ Idle
    /\ regenerate.pc = "refresh"
    /\ _token' = [_token EXCEPT !.refresh_token = @ + 1]
    /\ entry_data' = [k \in {CONF_REFRESH_TOKEN} |-> _token'.refresh_token]
    /\ regenerate' = [pc |-> "idle", outcome |-> "ok"]
    /\ UNCHANGED <<assignVars, setupVars, brokerVars, handlerVars, entityVars, commandVars, restVars,
                   entryVars>>

\* self._token.refresh returns: the token holds the next refresh token, and
\* async_update_entry(self._entry, data={**self._entry.data,
\* CONF_REFRESH_TOKEN: self._token.refresh_token}) stores it.
RefreshReturns ==
    /\ Idle
    /\ regenerate.pc = "refresh"
    /\ _token' = [_token EXCEPT !.refresh_token = @ + 1]
    /\ entry_data' = [k \in DOMAIN entry_data \cup {CONF_REFRESH_TOKEN} |->
                        IF k = CONF_REFRESH_TOKEN THEN _token'.refresh_token
                        ELSE entry_data[k]]
    /\ regenerate' = [pc |-> "idle", outcome |-> "ok"]
    /\ UNCHANGED <<assignVars, setupVars, brokerVars, handlerVars, entityVars, commandVars, restVars,
                   entryVars>>

\* self._token.refresh raises: the callback ends before async_update_entry,
\* and the token object keeps its tokens.
RefreshRaises ==
    /\ Idle
    /\ regenerate.pc = "refresh"
    /\ regenerate' = [pc |-> "idle", outcome |-> "raised"]
    /\ UNCHANGED <<entry_data, _token>>
    /\ UNCHANGED <<assignVars, setupVars, brokerVars, handlerVars, entityVars, commandVars, restVars,
                   entryVars>>

NextTimer ==
    \/ connect
    \/ disconnect
    \/ TimerFires
    \/ RefreshReturns
    \/ RefreshRaises
    \/ EventHandlerEnter(TimerRequests)
    \/ CheckInstalledApp
    \/ ProcessEvent
    \/ Dispatch
    \/ EventHandlerReturn

SpecTimer == Init /\ [][NextTimer]_vars

\* A step in which the timer calls regenerate_refresh_token.
TimerCallbackInvoked == regenerate.pc = "idle" /\ regenerate'.pc = "refresh"

\* A step in which the SmartApp calls _event_handler.
EventHandlerInvoked == handler.pc = "idle" /\ handler'.pc = "check"

\* C11: once disconnect has run, the broker has no token timer and no event
\* subscription left, so neither regenerate_refresh_token nor _event_handler
\* is invoked again; a disconnect of a broker that was never connected leaves
\* the registrations as they are (no remover is invoked).
C11_DisconnectCancelsBoth ==
    /\ [](unloaded => timers = 0 /\ handlers = 0)
    /\ [][unloaded => ~TimerCallbackInvoked /\ ~EventHandlerInvoked]_vars
    /\ [][(~unloaded /\ unloaded' /\ _regenerate_token_remove = "None"
              /\ _event_disconnect = "None")
            => timers' = timers /\ handlers' = handlers]_vars

\* disconnect has run on a connected broker whose timer had fired before.
C11_Witness ==
    /\ unloaded
    /\ _event_disconnect = "remover"
    /\ _regenerate_token_remove = "remover"
    /\ _token.refresh_token > 0

\* C18: the timer callback is invoked only while the timer is registered;
\* when its refresh returns, the token has a new refresh token and entry.data
\* becomes the old data with CONF_REFRESH_TOKEN set to it; when the refresh
\* raises, entry.data stays as it is; nothing else writes entry.data.
C18_TimerStoresRefreshToken ==
    [][/\ TimerCallbackInvoked => timers > 0
       /\ (regenerate.pc = "refresh" /\ regenerate'.outcome = "ok")
            => /\ _token'.refresh_token # _token.refresh_token
               /\ DOMAIN entry_data' = DOMAIN entry_data
               /\ \A k \in DOMAIN entry_data :
                     entry_data'[k] = IF k = CONF_REFRESH_TOKEN
                                      THEN _token'.refresh_token
                                      ELSE entry_data[k]
       /\ (regenerate.pc = "refresh" /\ regenerate'.outcome = "raised")
            => entry_data' = entry_data
       /\ entry_data' # entry_data
            => regenerate.pc = "refresh" /\ regenerate'.outcome = "ok"]_vars

\* One refresh has stored its token and a later one has raised.
C18_Witness ==
    /\ entry_data[CONF_REFRESH_TOKEN] = 1
    /\ _token.refresh_token = 1
    /\ regenerate = [pc |-> "idle", outcome |-> "raised"]

----------------------------------------------------------------------------
(* async_setup_entry and async_unload_entry of one config entry             *)

\* http.HTTPStatus members carried by a ClientResponseError: the two the
\* code names and one other.
UNAUTHORIZED == "UNAUTHORIZED"

FORBIDDEN == "FORBIDDEN"

INTERNAL_SERVER_ERROR == "INTERNAL_SERVER_ERROR"

ResponseErrors == {UNAUTHORIZED, FORBIDDEN, INTERNAL_SERVER_ERROR}

\* What an awaited cloud request does: it returns, or raises a
\* ClientResponseError with a status, or raises a ClientConnectionError.
Outcomes == {"ok"} \cup ResponseErrors \cup {"ClientConnectionError"}

\* Devices of the location, and the lists api.get_devices returns.
CloudDevices == DeviceIds \cup {"d3"}

CloudDeviceLists == { <<>>, <<"d2", "d1">>, <<"d1", "d2", "d3">> }

\* device.capabilities of the devices of the location.
SetupCapabilities ==
    [d \in CloudDevices |->
        IF d = "d1" THEN {"switch", "audio_volume", "media_input_source"}
        ELSE IF d = "d2" THEN {"robot_cleaner_cleaning_mode",
                               "robot_cleaner_movement"}
        ELSE {"switch"}]

\* The list api.get_scenes returns.
CloudScenes == <<"s1", "s2">>

\* The elements of a list.
Range(list) == { list[i] : i \in 1..Len(list) }

\* The first position of x in a list, 0 when x is not in it.
RECURSIVE IndexOf(_, _, _)
IndexOf(list, x, i) ==
    IF i > Len(list) THEN 0
    ELSE IF list[i] = x THEN i
    ELSE IndexOf(list, x, i + 1)

\* A removal that drops the last element, whatever x is.
ListRemoveLast(list, x) ==
    IF list = <<>> THEN list ELSE SubSeq(list, 1, Len(list) - 1)

\* list.remove(x): the first occurrence of x is taken out.
ListRemove(list, x) ==
    LET i == IndexOf(list, x, 1)
    IN  IF i = 0 THEN list
        ELSE SubSeq(list, 1, i - 1) \o SubSeq(list, i + 1, Len(list))

\* State before the first async_setup_entry call of the entry: a config flow
\* of the domain may be open, and another entry of the same SmartApp may
\* have put the app into the manager.
InitSetup ==
    /\ PLATFORMS = RunPlatforms
    /\ discovered = <<>>
    /\ capabilities = SetupCapabilities
    /\ ctor = [pc |-> "done", rest |-> <<>>, device |-> "none", pool |-> {},
               slots |-> EmptySlots, idx |-> 1,
               assignments |-> [d \in {} |-> EmptySlots]]
    /\ _assignments = [d \in {} |-> EmptySlots]
    /\ devices = {}
    /\ setup_idx = 1
    /\ entities = {}
    /\ InitBroker
    /\ InitHandler
    /\ InitEntity
    /\ InitToken
    /\ setup = IdleSetup(0, 0)
    /\ stored = FALSE
    /\ scenes = {}
    /\ smartapps \in BOOLEAN
    /\ removal_scheduled = FALSE
    /\ flow_in_progress \in BOOLEAN
    /\ flows_initiated = 0
    /\ flow_tasks = 0
    /\ forwarded = FALSE
    /\ services = [name \in ServiceNames |-> 0]
    /\ InitCommand
    /\ InitRest

\* What async_setup_entry leaves alone while it runs up to the broker.
SetupFrame ==
    UNCHANGED <<assignVars, setupVars, brokerVars, handlerVars, entityVars, commandVars, restVars,
                _token, regenerate, stored, scenes, forwarded, services>>

\* The host calls async_setup_entry: for the first time, again after
\* ConfigEntryNotReady, or after an unload.  Without the webhook
\* requirements it returns False at once; otherwise it runs up to its first
\* await: api.app when the manager does not hold the SmartApp,
\* validate_installed_app when it does.
async_setup_entry ==
    /\ \/ setup.pc = "idle"
       \/ setup.pc = "done" /\ setup.result = "ConfigEntryNotReady"
    /\ ~removal_scheduled
    /\ setup.n < MaxSetups
    /\ \E validate_webhook_requirements \in BOOLEAN :
           setup' = [IdleSetup(setup.n + 1, setup.loads) EXCEPT
                       !.pc = IF ~validate_webhook_requirements THEN "done"
                              ELSE IF smartapps THEN "installed_app"
                              ELSE "app",
                       !.result = IF ~validate_webhook_requirements
                                  THEN "False" ELSE "none"]
    /\ UNCHANGED <<smartapps, removal_scheduled, flow_in_progress,
                   flows_initiated, flow_tasks, entry_data>>
    /\ SetupFrame

\* A status test that lets FORBIDDEN through.
RemovesEntryUnauthorizedOnly(ex) == ex = UNAUTHORIZED

\* except ClientResponseError as ex:
\*     if ex.status in (HTTPStatus.UNAUTHORIZED, HTTPStatus.FORBIDDEN)
RemovesEntry(ex) == ex \in {UNAUTHORIZED, FORBIDDEN}

\* Except clauses that set remove_entry for every ClientResponseError.
RaisesRemovingEntry(call, ex) ==
    LET failed == [setup EXCEPT !.pc = "done", !.pending = {},
                                !.errors = @ \cup {<<call, ex>>}]
    IN  /\ UNCHANGED flow_in_progress
        /\ IF ex \in ResponseErrors
           THEN /\ setup' = [failed EXCEPT !.remove_entry = TRUE,
                                           !.result = "False"]
                /\ removal_scheduled' = TRUE
                /\ flows_initiated' = IF flow_in_progress THEN flows_initiated
                                      ELSE flows_initiated + 1
                /\ flow_tasks' = IF flow_in_progress THEN flow_tasks
                                 ELSE flow_tasks + 1
           ELSE /\ setup' = [failed EXCEPT !.result = "ConfigEntryNotReady"]
                /\ UNCHANGED <<removal_scheduled, flows_initiated,
                               flow_tasks>>

\* The awaited request `call` raises ex inside the try block.  A
\* ClientResponseError with status UNAUTHORIZED or FORBIDDEN sets
\* remove_entry: the removal task is created, a flow.async_init task is
\* created unless a flow of the domain is in progress, and False is returned.  Any other status,
\* a ClientConnectionError and a RuntimeWarning raise ConfigEntryNotReady.
Raises(call, ex) ==
    LET failed == [setup EXCEPT !.pc = "done", !.pending = {},
                                !.errors = @ \cup {<<call, ex>>}]
    IN  /\ UNCHANGED flow_in_progress
        /\ IF RemovesEntry(ex)
           THEN /\ setup' = [failed EXCEPT !.remove_entry = TRUE,
                                           !.result = "False"]
                /\ removal_scheduled' = TRUE
                /\ flows_initiated' = IF flow_in_progress THEN flows_initiated
                                      ELSE flows_initiated + 1
                /\ flow_tasks' = IF flow_in_progress THEN flow_tasks
                                 ELSE flow_tasks + 1
           ELSE /\ setup' = [failed EXCEPT !.result = "ConfigEntryNotReady"]
                /\ UNCHANGED <<removal_scheduled, flows_initiated,
                               flow_tasks>>

\* The awaited request returns and the function runs to its next await.
Returns(next) ==
    /\ setup' = next
    /\ UNCHANGED <<removal_scheduled, flows_initiated, flow_in_progress,
                   flow_tasks>>

\* app = await api.app(...); smart_app = setup_smartapp(hass, app)
ApiApp ==
    /\ setup.pc = "app"
    /\ \E outcome \in Outcomes :
           IF outcome = "ok"
           THEN /\ Returns([setup EXCEPT !.pc = "installed_app"])
                /\ smartapps' = TRUE
           ELSE /\ Raises("app", outcome)
                /\ UNCHANGED smartapps
    /\ UNCHANGED entry_data
    /\ SetupFrame

\* installed_app = await validate_installed_app(...): the request may fail,
\* and an installed app that is not authorized raises a RuntimeWarning.
ValidateInstalledApp ==
    /\ setup.pc = "installed_app"
    /\ \E outcome \in Outcomes \cup {"RuntimeWarning"} :
           IF outcome = "ok"
           THEN Returns([setup EXCEPT !.pc = "scenes"])
           ELSE Raises("installed_app", outcome)
    /\ UNCHANGED <<smartapps, entry_data>>
    /\ SetupFrame

\* An async_get_entry_scenes that turns every response error into [].
async_get_entry_scenesSwallowing(outcome) ==
    IF outcome = "ok" THEN [raised |-> "none", value |-> CloudScenes]
    ELSE IF outcome \in ResponseErrors THEN [raised |-> "none", value |-> <<>>]
    ELSE [raised |-> outcome, value |-> <<>>]

\* async_get_entry_scenes(entry, api): the list api.get_scenes returns; []
\* when it raises a ClientResponseError with status FORBIDDEN; any other
\* exception is raised to the caller.
async_get_entry_scenes(outcome) ==
    IF outcome = "ok" THEN [raised |-> "none", value |-> CloudScenes]
    ELSE IF outcome = FORBIDDEN THEN [raised |-> "none", value |-> <<>>]
    ELSE [raised |-> outcome, value |-> <<>>]

\* scenes = await async_get_entry_scenes(entry, api)
GetEntryScenes ==
    /\ setup.pc = "scenes"
    /\ \E outcome \in Outcomes :
           LET r == async_get_entry_scenes(outcome)
           IN  IF r.raised = "none"
               THEN Returns([setup EXCEPT
                               !.pc = "tokens",
                               !.scenes = r.value,
                               !.errors = IF outcome = "ok" THEN @
                                          ELSE @ \cup {<<"scenes", outcome>>}])
               ELSE Raises("scenes", r.raised)
    /\ UNCHANGED <<smartapps, entry_data>>
    /\ SetupFrame

\* token = await api.generate_tokens(...), then async_update_entry(entry,
\* data={**entry.data, CONF_REFRESH_TOKEN: token.refresh_token}).
GenerateTokens ==
    /\ setup.pc = "tokens"
    /\ \E outcome \in Outcomes :
           IF outcome = "ok"
           THEN LET refresh_token == entry_data[CONF_REFRESH_TOKEN] + 1
                IN  /\ Returns([setup EXCEPT !.pc = "devices",
                                             !.token = refresh_token])
                    /\ entry_data' =
                         [k \in DOMAIN entry_data \cup {CONF_REFRESH_TOKEN} |->
                            IF k = CONF_REFRESH_TOKEN THEN refresh_token
                            ELSE entry_data[k]]
           ELSE /\ Raises("tokens", outcome)
                /\ UNCHANGED entry_data
    /\ UNCHANGED smartapps
    /\ SetupFrame

\* devices = await api.get_devices(...); asyncio.gather then starts one
\* retrieve_device_status(d) for every d of devices.copy(), each running up
\* to `await device.status.refresh()`.
GetDevices ==
    /\ setup.pc = "devices"
    /\ \E outcome \in Outcomes :
           IF outcome = "ok"
           THEN \E found \in CloudDeviceLists :
                    Returns([setup EXCEPT !.pc = "status",
                                          !.found = found,
                                          !.devices = found,
                                          !.pending = Range(found)])
           ELSE Raises("devices", outcome)
    /\ UNCHANGED <<smartapps, entry_data>>
    /\ SetupFrame

\* device.status.refresh() of one pending retrieve_device_status(device)
\* completes, in any order among the pending ones.  A ClientResponseError is
\* caught there and the device is taken out of the shared list; a
\* ClientConnectionError is not caught, leaves gather and reaches the except
\* clauses of async_setup_entry (the refreshes still pending then finish
\* unobserved).
RetrieveDeviceStatus ==
    /\ setup.pc = "status"
    /\ \E device \in setup.pending :
       \E outcome \in Outcomes :
           IF outcome = "ok"
           THEN Returns([setup EXCEPT !.pending = @ \ {device}])
           ELSE IF outcome \in ResponseErrors
           THEN Returns([setup EXCEPT
                           !.pending = @ \ {device},
                           !.devices = ListRemove(@, device),
                           !.failed = @ \cup {device},
                           !.errors = @ \cup {<<"status", outcome>>}])
           ELSE Raises("status", outcome)
    /\ UNCHANGED <<smartapps, entry_data>>
    /\ SetupFrame

\* Every retrieve_device_status has returned: gather returns and
\* smartapp_sync_subscriptions(..., devices) is called and awaited.
GatherReturns ==
    /\ setup.pc = "status"
    /\ setup.pending = {}
    /\ Returns([setup EXCEPT !.pc = "subscriptions", !.sync_called = TRUE,
                             !.synced = setup.devices])
    /\ UNCHANGED <<smartapps, entry_data>>
    /\ SetupFrame

\* await smartapp_sync_subscriptions(...) completes.
SyncSubscriptions ==
    /\ setup.pc = "subscriptions"
    /\ \E outcome \in Outcomes :
           IF outcome = "ok"
           THEN Returns([setup EXCEPT !.pc = "broker"])
           ELSE Raises("subscriptions", outcome)
    /\ UNCHANGED <<smartapps, entry_data>>
    /\ SetupFrame

\* A broker that is stored without having been connected.
CreateBrokerUnconnected ==
    /\ setup.pc = "broker"
    /\ discovered' = setup.devices
    /\ devices' = Range(setup.devices)
    /\ _assignments' = AssignCapabilities(PLATFORMS, devices', capabilities)
    /\ scenes' = Range(setup.scenes)
    /\ _token' = [refresh_token |-> setup.token]
    /\ stored' = TRUE
    /\ Returns([setup EXCEPT !.pc = "forward"])
    /\ UNCHANGED <<PLATFORMS, capabilities, ctor, setupVars, brokerVars,
                   handlerVars, entityVars, commandVars, restVars, entry_data, regenerate, smartapps,
                   forwarded, services>>

\* broker = DeviceBroker(hass, entry, token, smart_app, devices, scenes);
\* broker.connect(); hass.data[DOMAIN][DATA_BROKERS][entry.entry_id] = broker;
\* then async_forward_entry_setups is called and awaited.
CreateBroker ==
    /\ setup.pc = "broker"
    /\ discovered' = setup.devices
    /\ devices' = Range(setup.devices)
    /\ _assignments' = AssignCapabilities(PLATFORMS, devices', capabilities)
    /\ scenes' = Range(setup.scenes)
    /\ _token' = [refresh_token |-> setup.token]
    /\ _regenerate_token_remove' = "remover"
    /\ timers' = timers + 1
    /\ _event_disconnect' = "remover"
    /\ handlers' = handlers + 1
    /\ stored' = TRUE
    /\ Returns([setup EXCEPT !.pc = "forward"])
    /\ UNCHANGED <<PLATFORMS, capabilities, ctor, setupVars, unloaded,
                   handlerVars, entityVars, commandVars, restVars, entry_data, regenerate, smartapps,
                   forwarded, services>>

\* await hass.config_entries.async_forward_entry_setups(entry, PLATFORMS)
\* returns; async_register_services(hass) is called.
ForwardEntrySetups ==
    /\ setup.pc = "forward"
    /\ forwarded' = TRUE
    /\ Returns([setup EXCEPT !.pc = "services"])
    /\ UNCHANGED <<assignVars, setupVars, brokerVars, handlerVars, entityVars, commandVars, restVars,
                   tokenVars, stored, scenes, smartapps, services>>

\* A registration without the has_service guard.
async_register_servicesUnguarded(registry) ==
    [name \in ServiceNames |-> registry[name] + 1]

\* async_register_services: nothing when hass.services.has_service(DOMAIN,
\* "send_command"); otherwise one async_register call for each service.
async_register_services(registry) ==
    IF registry["send_command"] > 0 THEN registry
    ELSE [name \in ServiceNames |-> registry[name] + 1]

\* await async_register_services(hass) returns; return True.
RegisterServices ==
    /\ setup.pc = "services"
    /\ services' = async_register_services(services)
    /\ Returns([setup EXCEPT !.pc = "done", !.result = "True",
                             !.loads = @ + 1])
    /\ UNCHANGED <<assignVars, setupVars, brokerVars, handlerVars, entityVars, commandVars, restVars,
                   tokenVars, stored, scenes, smartapps, forwarded>>

\* An unload that pops the broker without disconnecting it.
async_unload_entryWithoutDisconnect ==
    /\ setup.pc \in {"idle", "done"}
    /\ stored' = FALSE
    /\ forwarded' = FALSE
    /\ setup' = [IdleSetup(setup.n, setup.loads) EXCEPT !.result = "unloaded"]
    /\ UNCHANGED <<assignVars, setupVars, brokerVars, handlerVars, entityVars,
                   commandVars, restVars, tokenVars, scenes, smartapps,
                   removal_scheduled, flow_in_progress, flows_initiated,
                   flow_tasks, services>>

\* async_unload_entry, called by the host while async_setup_entry is not
\* running: DATA_BROKERS.pop(entry_id, None), disconnect of the popped
\* broker when there was one, then async_unload_platforms, whose result is
\* returned.
async_unload_entry ==
    /\ setup.pc \in {"idle", "done"}
    /\ stored' = FALSE
    /\ timers' = IF stored /\ _regenerate_token_remove # "None"
                 THEN timers - 1 ELSE timers
    /\ handlers' = IF stored /\ _event_disconnect # "None"
                   THEN handlers - 1 ELSE handlers
    /\ forwarded' = FALSE
    /\ setup' = [IdleSetup(setup.n, setup.loads) EXCEPT !.result = "unloaded"]
    /\ UNCHANGED <<assignVars, setupVars, _regenerate_token_remove,
                   _event_disconnect, unloaded, handlerVars, entityVars, commandVars, restVars,
                   tokenVars, scenes, smartapps, removal_scheduled,
                   flow_in_progress, flows_initiated, flow_tasks, services>>

\* The host starts a created flow.async_init task: from then on the flow
\* is among the flows in progress of the domain.
async_init ==
    /\ flow_tasks > 0
    /\ flow_tasks' = flow_tasks - 1
    /\ flow_in_progress' = TRUE
    /\ UNCHANGED <<assignVars, setupVars, brokerVars, handlerVars, entityVars,
                   commandVars, restVars, tokenVars, setup, stored, scenes,
                   smartapps, removal_scheduled, flows_initiated, forwarded,
                   services>>

NextSetup ==
    \/ async_setup_entry
    \/ ApiApp
    \/ ValidateInstalledApp
    \/ GetEntryScenes
    \/ GenerateTokens
    \/ GetDevices
    \/ RetrieveDeviceStatus
    \/ GatherReturns
    \/ SyncSubscriptions
    \/ CreateBroker
    \/ ForwardEntrySetups
    \/ RegisterServices
    \/ async_unload_entry
    \/ async_init

SpecSetup == InitSetup /\ [][NextSetup]_vars

\* Entries of the domain that were created under a previous version.
LegacyEntries == {"legacy-1", "legacy-2"}

\* A migration that initiates a flow whatever is in progress.
async_migrate_entryUnguarded(entry) ==
    /\ entry \notin DOMAIN migrations
    /\ migrations' = migrations @@
           (entry :> [removal_scheduled |-> TRUE, result |-> "False"])
    /\ flows_initiated' = flows_initiated + 1
    /\ flow_tasks' = flow_tasks + 1
    /\ UNCHANGED <<assignVars, setupVars, brokerVars, handlerVars, entityVars,
                   commandVars, tokenVars, setup, stored, scenes, smartapps,
                   removal_scheduled, flow_in_progress, forwarded, services,
                   besidesMigrations>>

\* async_migrate_entry(hass, entry), called once for an entry of a previous
\* version: the removal task of the entry is created, a flow.async_init task
\* is created unless a flow of the domain is in progress, and False is
\* returned.
async_migrate_entry(entry) ==
    /\ entry \notin DOMAIN migrations
    /\ migrations' = migrations @@
           (entry :> [removal_scheduled |-> TRUE, result |-> "False"])
    /\ flows_initiated' = IF flow_in_progress THEN flows_initiated
                          ELSE flows_initiated + 1
    /\ flow_tasks' = IF flow_in_progress THEN flow_tasks ELSE flow_tasks + 1
    /\ UNCHANGED <<assignVars, setupVars, brokerVars, handlerVars, entityVars,
                   commandVars, tokenVars, setup, stored, scenes, smartapps,
                   removal_scheduled, flow_in_progress, forwarded, services,
                   besidesMigrations>>

NextReconfigure ==
    \/ NextSetup
    \/ \E entry \in LegacyEntries : async_migrate_entry(entry)

SpecReconfigure == InitSetup /\ [][NextReconfigure]_vars

----------------------------------------------------------------------------
(* SpecRemove: async_remove_entry, one await at a time *)

MaxRemovals == 2
MaxEntries == 3

\* What async_remove_entry leaves alone.
RemoveFrame ==
    UNCHANGED <<assignVars, setupVars, brokerVars, handlerVars, entityVars,
                tokenVars, entryVars, commandVars, besidesRemoval>>

\* The host calls async_remove_entry for an entry being removed: the api
\* object is built and api.delete_installed_app(installed_app_id) is awaited.
async_remove_entry ==
    /\ removal.pc \in {"idle", "done"}
    /\ removal.n < MaxRemovals
    /\ removal' = [IdleRemoval(removal.n + 1) EXCEPT
                     !.pc = "delete_installed_app",
                     !.requests = <<"delete_installed_app">>]
    /\ RemoveFrame

\* A status test that also takes UNAUTHORIZED for an object already removed.
AlreadyRemovedOrUnauthorized(ex) == ex \in {FORBIDDEN, UNAUTHORIZED}

\* except ClientResponseError as ex: if ex.status == HTTPStatus.FORBIDDEN
AlreadyRemoved(ex) == ex = FORBIDDEN

\* The awaited delete request raised an exception that the try statement
\* does not absorb: it leaves async_remove_entry.
Propagates(call, ex) ==
    [removal EXCEPT !.pc = "done", !.errors = Append(@, <<call, ex>>),
                    !.result = "raised"]

\* The awaited delete request returned, or raised the absorbed 403.
Absorbed(call, outcome) ==
    IF outcome = "ok" THEN removal
    ELSE [removal EXCEPT !.errors = Append(@, <<call, outcome>>)]

\* A reference test that lets one other entry through.
InUseByOthersBeyondOne(app_count) == app_count > 2

\* if app_count > 1: ... return
InUseByOthers(app_count) == app_count > 1

\* await api.delete_installed_app(...) ends.  When the function goes on,
\* the entries of the domain are listed and those with the entry's app id
\* counted; the function returns when other entries use the app and awaits
\* api.delete_app(app_id) otherwise.
DeleteInstalledApp ==
    /\ removal.pc = "delete_installed_app"
    /\ \E outcome \in Outcomes :
         IF outcome # "ok" /\ ~AlreadyRemoved(outcome)
         THEN removal' = Propagates("delete_installed_app", outcome)
         ELSE \E all_entries \in 0..MaxEntries :
              \E app_count \in 0..all_entries :
                LET read == [Absorbed("delete_installed_app", outcome) EXCEPT
                               !.all_entries = all_entries,
                               !.app_count = app_count]
                IN  removal' =
                      IF InUseByOthers(app_count)
                      THEN [read EXCEPT !.pc = "done", !.result = "None"]
                      ELSE [read EXCEPT !.pc = "delete_app",
                              !.requests = Append(@, "delete_app")]
    /\ RemoveFrame

\* await api.delete_app(app_id) ends.  When the function goes on,
\* unload_smartapp_endpoint(hass) is awaited if all_entries holds one entry.
DeleteApp ==
    /\ removal.pc = "delete_app"
    /\ \E outcome \in Outcomes :
         removal' =
           IF outcome # "ok" /\ ~AlreadyRemoved(outcome)
           THEN Propagates("delete_app", outcome)
           ELSE LET deleted == Absorbed("delete_app", outcome)
                IN  IF removal.all_entries = 1
                    THEN [deleted EXCEPT !.pc = "unload_smartapp_endpoint",
                            !.requests = Append(@, "unload_smartapp_endpoint")]
                    ELSE [deleted EXCEPT !.pc = "done", !.result = "None"]
    /\ RemoveFrame

\* await unload_smartapp_endpoint(hass) returns and so does the function.
UnloadSmartappEndpoint ==
    /\ removal.pc = "unload_smartapp_endpoint"
    /\ removal' = [removal EXCEPT !.pc = "done", !.result = "None"]
    /\ RemoveFrame

NextRemove ==
    \/ async_remove_entry
    \/ DeleteInstalledApp
    \/ DeleteApp
    \/ UnloadSmartappEndpoint

SpecRemove == Init /\ [][NextRemove]_vars

----------------------------------------------------------------------------
(* SpecRefresh: the refresh_device service of a loaded entry *)

MaxServiceCalls == 2

\* State after async_setup_entry has returned True: the broker is
\* constructed, connected and stored, the platforms are forwarded and the
\* services registered.
InitLoaded ==
    /\ Constructed(RunPlatforms, RunCapabilities)
    /\ setup_idx = 1
    /\ entities = {}
    /\ _regenerate_token_remove = "remover"
    /\ _event_disconnect = "remover"
    /\ timers = 1
    /\ handlers = 1
    /\ unloaded = FALSE
    /\ InitHandler
    /\ InitEntity
    /\ InitToken
    /\ setup = [IdleSetup(1, 1) EXCEPT !.pc = "done", !.result = "True"]
    /\ stored = TRUE
    /\ scenes = {}
    /\ smartapps = TRUE
    /\ removal_scheduled = FALSE
    /\ flow_in_progress = FALSE
    /\ flows_initiated = 0
    /\ flow_tasks = 0
    /\ forwarded = TRUE
    /\ services = async_register_services([name \in ServiceNames |-> 0])
    /\ InitCommand
    /\ InitRest

\* call.data.get("device_id"): absent, empty, the devices of the broker, and
\* a device of no broker.
ServiceDeviceIds == {"None", "", "d1", "d2", "d3"}

\* What a device status holds after a refresh from the cloud.
CloudStatuses == [Attributes -> {"None", "pushed"}]

\* The loop over the entries of the domain: the device of the first stored
\* broker that holds device_id, None when there is none.
FindDevice(device_id) ==
    IF stored /\ device_id \in devices THEN device_id ELSE "None"

\* What the service leaves alone.
RefreshFrame ==
    UNCHANGED <<assignVars, setupVars, brokerVars, handler, bus, query,
                entityVars, tokenVars, entryVars, commandVars, besidesRefresh>>

\* refresh_device_service(call) up to its await: it returns when device_id
\* is missing or empty and when no broker holds the device, and awaits
\* device.status.refresh() otherwise.
refresh_device_service ==
    /\ refresh.pc \in {"idle", "done"}
    /\ refresh.n < MaxServiceCalls
    /\ services["refresh_device"] > 0
    /\ \E device_id \in ServiceDeviceIds :
         LET called == [IdleRefresh(refresh.n + 1) EXCEPT
                          !.device_id = device_id]
         IN  refresh' =
               IF device_id \in {"None", ""}
               THEN [called EXCEPT !.pc = "done"]
               ELSE IF FindDevice(device_id) = "None"
               THEN [called EXCEPT !.pc = "done"]
               ELSE [called EXCEPT !.pc = "refresh",
                                   !.device = FindDevice(device_id)]
    /\ dispatched' = <<>>
    /\ UNCHANGED status
    /\ RefreshFrame

\* await device.status.refresh() returns: the signal is sent with the set
\* holding the device id.
StatusRefreshReturns ==
    /\ refresh.pc = "refresh"
    /\ \E cloud \in CloudStatuses :
           status' = [status EXCEPT ![refresh.device] = cloud]
    /\ dispatched' = Append(dispatched, {refresh.device_id})
    /\ refresh' = [refresh EXCEPT !.pc = "done", !.outcome = "refreshed"]
    /\ RefreshFrame

\* A failed refresh after which the signal is sent all the same.
StatusRefreshRaisesDispatching ==
    /\ refresh.pc = "refresh"
    /\ dispatched' = Append(dispatched, {refresh.device_id})
    /\ refresh' = [refresh EXCEPT !.pc = "done", !.outcome = "failed"]
    /\ UNCHANGED status
    /\ RefreshFrame

\* await device.status.refresh() raises: `except Exception` logs the error
\* and the service returns.
StatusRefreshRaises ==
    /\ refresh.pc = "refresh"
    /\ refresh' = [refresh EXCEPT !.pc = "done", !.outcome = "failed"]
    /\ UNCHANGED <<status, dispatched>>
    /\ RefreshFrame

NextRefresh ==
    \/ refresh_device_service
    \/ StatusRefreshReturns
    \/ StatusRefreshRaises
    \/ async_unload_entry

SpecRefresh == InitLoaded /\ [][NextRefresh]_vars

----------------------------------------------------------------------------
(* SpecSetValue: number and select commands next to push events *)

MaxSettings == 2

\* The devices whose entities are followed: a refrigerator with a number
\* and an oven with a select.
SetValueCapabilities ==
    [d \in DeviceIds |->
        IF d = "d1" THEN {"refrigeration_setpoint"} ELSE {"oven_mode"}]

\* CAPABILITY_TO_NUMBER[capability]["attribute"], ["command"] and ["step"].
NumberAttribute(capability) ==
    CASE capability = "audio_volume" -> "volume"
      [] capability = "refrigeration_setpoint" -> "refrigeration_setpoint"
      [] capability = "oven_setpoint" -> "oven_setpoint"
      [] capability = "infrared_level" -> "infrared_level"

NumberCommand(capability) ==
    CASE capability = "audio_volume" -> "setVolume"
      [] capability = "refrigeration_setpoint" -> "setRefrigerationSetpoint"
      [] capability = "oven_setpoint" -> "setOvenSetpoint"
      [] capability = "infrared_level" -> "setInfraredLevel"

NumberStep(capability) ==
    CASE capability = "audio_volume" -> 1
      [] capability = "refrigeration_setpoint" -> 1
      [] capability = "oven_setpoint" -> 5
      [] capability = "infrared_level" -> 1

\* CAPABILITY_TO_SELECT[capability]["attribute"] and ["command"] of the
\* followed capability.
SelectAttribute(capability) ==
    CASE capability = "oven_mode" -> "oven_mode"

SelectCommand(capability) ==
    CASE capability = "oven_mode" -> "setOvenMode"

\* Numbers are held in tenths: 25 is 2.5.  int(value) truncates towards
\* zero.
int(value) ==
    IF value >= 0 THEN (value \div 10) * 10 ELSE -(((-value) \div 10) * 10)

\* The values a number is set to, the options a select is set to.
NumberValues == {25, -15}

SelectOptions == {"Bake", "Grill"}

\* Push events for the attributes of the followed entities.
SetValueEvents ==
    [event_type : {EVENT_TYPE_DEVICE}, device_id : {"d1"},
     capability : {"refrigeration_setpoint"},
     attribute : {"refrigeration_setpoint"}, value : {-10, 40}]
      \cup
    [event_type : {EVENT_TYPE_DEVICE}, device_id : {"d2"},
     capability : {"oven_mode"}, attribute : {"oven_mode"},
     value : {"Grill", "Warm"}]

\* The batches delivered while the commands are followed.
SetValueRequests ==
    [installed_app_id : {InstalledAppId}, events : SeqUpTo(SetValueEvents, 1)]

\* State after async_setup_entry and async_added_to_hass of the entities:
\* the broker is constructed and connected, the number and the select are
\* added to hass and connected to the update signal, and the device
\* statuses hold what the cloud reported.
InitSetValue ==
    /\ Constructed(EntityPlatforms, SetValueCapabilities)
    /\ setup_idx = Len(EntityPlatforms) + 1
    /\ entities = NumberEntities \cup SelectEntities
    /\ _regenerate_token_remove = "remover"
    /\ _event_disconnect = "remover"
    /\ timers = 1
    /\ handlers = 1
    /\ unloaded = FALSE
    /\ handler = IdleHandler
    /\ status = [d \in DeviceIds |->
                   IF d = "d1" THEN [a \in {"refrigeration_setpoint"} |-> 40]
                   ELSE [a \in {"oven_mode"} |-> "Bake"]]
    /\ bus = <<>>
    /\ dispatched = <<>>
    /\ query = NoQuery
    /\ hass_state = [e \in entities |-> "added"]
    /\ _dispatcher_remove = [e \in entities |-> "remover"]
    /\ connected = entities
    /\ tasks = <<>>
    /\ _update_count = [e \in entities |-> 0]
    /\ InitOther

\* device.status.update_attribute_value(attribute, value)
update_attribute_value(st, device_id, attribute, value) ==
    [st EXCEPT ![device_id][attribute] = value]

\* What a number or select command leaves alone.
SettingFrame ==
    UNCHANGED <<assignVars, setupVars, brokerVars, handler, bus, dispatched,
                query, entityVars, tokenVars, entryVars, invocation,
                besidesSetting>>

\* The entity's only capability.
CapabilityOf(e) == CHOOSE capability \in e.capabilities : TRUE

\* The command of entity e for `attribute` with `value` is sent and awaited.
SettingAwaits(op, e, attribute, command, value) ==
    /\ setting' = [IdleSetting(setting.n + 1) EXCEPT
                     !.op = op, !.pc = "command",
                     !.device_id = e.device_id, !.attribute = attribute,
                     !.before = status[e.device_id][attribute]]
    /\ sent' = <<DeviceCommand(CapabilityOf(e), command, <<value>>)>>
    /\ UNCHANGED status

\* SmartThingsNumber.async_set_native_value(value) up to its await: the
\* value is converted when the step is 1 and the command is sent.
async_set_native_value ==
    /\ Idle
    /\ setting.pc \in {"idle", "done"}
    /\ setting.n < MaxSettings
    /\ \E e \in entities : \E value \in NumberValues :
         /\ e.platform = "number"
         /\ hass_state[e] = "added"
         /\ SettingAwaits("async_set_native_value", e,
                          NumberAttribute(CapabilityOf(e)),
                          NumberCommand(CapabilityOf(e)),
                          IF NumberStep(CapabilityOf(e)) = 1
                          THEN int(value) ELSE value)
    /\ SettingFrame

\* SmartThingsSelect.async_select_option(option) up to its await.
async_select_option ==
    /\ Idle
    /\ setting.pc \in {"idle", "done"}
    /\ setting.n < MaxSettings
    /\ \E e \in entities : \E option \in SelectOptions :
         /\ e.platform = "select"
         /\ hass_state[e] = "added"
         /\ SettingAwaits("async_select_option", e,
                          SelectAttribute(CapabilityOf(e)),
                          SelectCommand(CapabilityOf(e)), option)
    /\ SettingFrame

\* A return that leaves a value pushed during the command in place.
SettingCommandReturnsKeepingPush ==
    /\ Idle
    /\ setting.pc = "command"
    /\ LET current == status[setting.device_id][setting.attribute]
       IN  \E result \in BOOLEAN :
             /\ setting' = [setting EXCEPT
                              !.pc = "done",
                              !.result = IF result THEN "True" ELSE "False",
                              !.overtaken = current # setting.before,
                              !.written = result]
             /\ status' = IF result /\ current = setting.before
                          THEN update_attribute_value(
                                   status, setting.device_id,
                                   setting.attribute, sent[1].argument[1])
                          ELSE status
    /\ UNCHANGED sent
    /\ SettingFrame

\* await self._device.command(...) returns: with a truthy result the value
\* sent is written into the device status and the state is written.
SettingCommandReturns ==
    /\ Idle
    /\ setting.pc = "command"
    /\ LET current == status[setting.device_id][setting.attribute]
       IN  \E result \in BOOLEAN :
             /\ setting' = [setting EXCEPT
                              !.pc = "done",
                              !.result = IF result THEN "True" ELSE "False",
                              !.overtaken = current # setting.before,
                              !.written = result]
             /\ status' = IF result
                          THEN update_attribute_value(
                                   status, setting.device_id,
                                   setting.attribute, sent[1].argument[1])
                          ELSE status
    /\ UNCHANGED sent
    /\ SettingFrame

\* await self._device.command(...) raises: the exception leaves the method.
SettingCommandRaises ==
    /\ Idle
    /\ setting.pc = "command"
    /\ setting' = [setting EXCEPT
                     !.pc = "done", !.result = "raised",
                     !.overtaken = status[setting.device_id][setting.attribute]
                                     # setting.before]
    /\ UNCHANGED <<status, sent>>
    /\ SettingFrame

NextSetValue ==
    \/ async_update_state
    \/ EventHandlerEnter(SetValueRequests)
    \/ CheckInstalledApp
    \/ ProcessEvent
    \/ Dispatch
    \/ EventHandlerReturn
    \/ async_set_native_value
    \/ async_select_option
    \/ SettingCommandReturns
    \/ SettingCommandRaises

SpecSetValue == InitSetValue /\ [][NextSetValue]_vars

----------------------------------------------------------------------------
(* Claims about async_setup_entry *)

\* The failures async_setup_entry does not see as failures of its own: a
\* ClientResponseError of a device status refresh is caught in
\* retrieve_device_status, one with status FORBIDDEN of the scene listing in
\* async_get_entry_scenes.
AbsorbedErrors ==
    { <<"status", ex>> : ex \in ResponseErrors } \cup { <<"scenes", FORBIDDEN>> }

\* The failures the step adds to the ones the running call has met.
NewErrors == setup'.errors \ setup.errors

\* C12 as stated: a setup in which some cloud request failed with 401 or 403
\* ends with the removal scheduled, a flow of the domain in progress and
\* False returned, with no broker stored and no platform forwarded.
C12_AuthFailureRemovesEntry ==
    (setup.pc = "done"
        /\ \E e \in setup.errors : e[2] \in {UNAUTHORIZED, FORBIDDEN})
      => /\ setup.result = "False"
         /\ removal_scheduled
         /\ (flow_in_progress \/ flow_tasks > 0)
         /\ ~stored
         /\ ~forwarded

\* C12 amended: when a cloud request other than a device status refresh
\* fails with 401, or one other than a status refresh and the scene listing
\* fails with 403, async_setup_entry schedules the removal of the entry,
\* initiates a flow unless one of the domain is already in progress, and
\* returns False with no broker stored and no platform forwarded.
C12_UnabsorbedAuthFailureRemovesEntry ==
    [][(\E e \in NewErrors \ AbsorbedErrors :
            e[2] \in {UNAUTHORIZED, FORBIDDEN})
         => /\ setup'.pc = "done"
            /\ setup'.result = "False"
            /\ removal_scheduled'
            /\ flows_initiated' = IF flow_in_progress THEN flows_initiated
                                  ELSE flows_initiated + 1
            /\ (flow_in_progress' \/ flow_tasks' > 0)
            /\ ~stored'
            /\ ~forwarded']_vars

\* The scene listing was refused, the token request was then rejected, and
\* the entry is being removed with a new flow initiated.
C12_Witness ==
    /\ setup.pc = "done"
    /\ setup.result = "False"
    /\ setup.errors = {<<"scenes", FORBIDDEN>>, <<"tokens", UNAUTHORIZED>>}
    /\ removal_scheduled
    /\ flows_initiated = 1

\* C13 as stated: a setup in which some cloud request failed with another
\* status or a connection error ends with ConfigEntryNotReady, no removal
\* scheduled and no flow initiated.
C13_OtherFailureNotReady ==
    (setup.pc = "done"
        /\ \E e \in setup.errors :
               e[2] \in {INTERNAL_SERVER_ERROR, "ClientConnectionError"})
      => /\ setup.result = "ConfigEntryNotReady"
         /\ ~removal_scheduled
         /\ flows_initiated = 0

\* C13 amended: when a cloud request fails with a connection error, or a
\* request other than a device status refresh fails with a status other
\* than 401 and 403, async_setup_entry raises ConfigEntryNotReady and neither
\* schedules the removal nor initiates a flow; no broker is stored.
C13_UnabsorbedOtherFailureNotReady ==
    [][(\E e \in NewErrors \ AbsorbedErrors :
            e[2] \in {INTERNAL_SERVER_ERROR, "ClientConnectionError"})
         => /\ setup'.pc = "done"
            /\ setup'.result = "ConfigEntryNotReady"
            /\ UNCHANGED <<removal_scheduled, flows_initiated,
                           flow_in_progress>>
            /\ ~stored'
            /\ ~forwarded']_vars

\* A device was excluded after a failed refresh, the subscription sync then
\* failed with another status, and the retried setup lost the connection.
C13_Witness ==
    /\ setup.pc = "done"
    /\ setup.result = "ConfigEntryNotReady"
    /\ setup.n = 2
    /\ <<"devices", "ClientConnectionError">> \in setup.errors
    /\ ~removal_scheduled
    /\ flows_initiated = 0

\* The discovered devices whose status refresh did not fail, in the order
\* api.get_devices returned them.
Remaining == SelectSeq(setup.found, LAMBDA d : d \notin setup.failed)

\* C14: whatever the order in which the status refreshes complete, the
\* shared device list is the discovered list without the devices whose
\* refresh raised a response error; that list is passed to the subscription
\* sync and its devices are the ones the broker holds; a setup whose only
\* failures are such refreshes returns True.
C14_FailedDevicesExcluded ==
    /\ setup.pc \in {"status", "subscriptions", "broker", "forward", "services"}
         => setup.devices = Remaining
    /\ setup.sync_called => setup.synced = Remaining
    /\ (stored /\ setup.pc \in {"forward", "services", "done"})
         => /\ devices = Range(Remaining)
            /\ DOMAIN _assignments = Range(Remaining)
    /\ (setup.pc = "done" /\ setup.failed # {}
          /\ \A e \in setup.errors : e[1] = "status" /\ e[2] \in ResponseErrors)
         => setup.result = "True"

\* The refreshes of d1 and d3 failed and the broker holds d2 alone.
C14_Witness ==
    /\ setup.pc = "done"
    /\ setup.result = "True"
    /\ setup.found = <<"d1", "d2", "d3">>
    /\ setup.failed = {"d1", "d3"}
    /\ setup.synced = <<"d2">>
    /\ stored
    /\ devices = {"d2"}

\* C16: the scene listing hands the cloud's list to the setup when it
\* succeeds and [] when it is refused with 403, and the setup goes on to the
\* token request; with any other failure the setup ends without returning
\* True.  A setup whose only failure is the refused scene listing returns
\* True, and the broker it stores has no scene.
C16_SceneListingDegrades ==
    /\ [][(setup.pc = "scenes" /\ setup'.pc # "scenes")
            => \/ /\ setup'.pc = "tokens"
                  /\ setup'.scenes = CloudScenes
                  /\ NewErrors = {}
               \/ /\ setup'.pc = "tokens"
                  /\ setup'.scenes = <<>>
                  /\ NewErrors = {<<"scenes", FORBIDDEN>>}
               \/ /\ setup'.pc = "done"
                  /\ setup'.result # "True"
                  /\ \E ex \in Outcomes \ {"ok", FORBIDDEN} :
                         NewErrors = {<<"scenes", ex>>}]_vars
    /\ []((setup.pc = "done" /\ setup.errors = {<<"scenes", FORBIDDEN>>})
            => setup.result = "True" /\ stored /\ scenes = {})
    /\ []((setup.pc = "done" /\ setup.result = "True"
             /\ <<"scenes", FORBIDDEN>> \notin setup.errors)
            => scenes = Range(CloudScenes))

\* The scene listing was refused and the setup has stored a broker without
\* scenes.
C16_Witness ==
    /\ setup.pc = "done"
    /\ setup.result = "True"
    /\ setup.errors = {<<"scenes", FORBIDDEN>>}
    /\ stored
    /\ scenes = {}
    /\ devices # {}

\* C19: no service is registered more than once, and once a setup has
\* returned True each of the five services is registered exactly once.
C19_ServicesRegisteredOnce ==
    /\ \A name \in ServiceNames : services[name] <= 1
    /\ setup.loads > 0 => \A name \in ServiceNames : services[name] = 1
    /\ DOMAIN services = {"send_command", "refresh_device", "execute_scene",
                          "get_diagnostics", "device_health_check"}

\* Two setups have returned True.
C19_Witness ==
    /\ setup.loads = 2
    /\ setup.result = "True"
    /\ services["send_command"] = 1

\* C20: the platforms are set up only while a constructed and connected
\* broker is stored, and the forwarding step starts from such a state; after
\* a setup that returned False or raised ConfigEntryNotReady no broker is
\* stored, no timer or event subscription is registered and no platform is
\* set up.
C20_ForwardOnlyAfterBroker ==
    /\ [](forwarded
            => /\ stored
               /\ timers = 1
               /\ handlers = 1
               /\ _regenerate_token_remove = "remover"
               /\ _event_disconnect = "remover"
               /\ DOMAIN _assignments = devices)
    /\ [][(~forwarded /\ forwarded')
            => stored /\ timers = 1 /\ handlers = 1]_vars
    /\ []((setup.pc = "done"
             /\ setup.result \in {"False", "ConfigEntryNotReady"})
            => ~stored /\ timers = 0 /\ handlers = 0 /\ ~forwarded)

\* A reloaded entry: the second setup has forwarded the platforms.
C20_Witness ==
    /\ forwarded
    /\ stored
    /\ setup.loads = 1
    /\ setup.pc = "services"
    /\ timers = 1

----------------------------------------------------------------------------
(* Operations that send a command: SmartThingsButton.async_press, the       *)
(* send_command service and the SmartThingsVacuum commands                  *)

\* Keys of vacuum.FAN_SPEED_MAP, in the order of the dict.
FAN_SPEED_MODES ==
    <<"auto", "quiet", "standard", "medium", "high", "turbo", "max", "eco",
      "spot", "edge", "single">>

\* vacuum.FAN_SPEED_MAP[mode]
FAN_SPEED_MAP(mode) ==
    CASE mode = "auto" -> "Auto"
      [] mode = "quiet" -> "Quiet"
      [] mode = "standard" -> "Standard"
      [] mode = "medium" -> "Medium"
      [] mode = "high" -> "High"
      [] mode = "turbo" -> "Turbo"
      [] mode = "max" -> "Max"
      [] mode = "eco" -> "Eco"
      [] mode = "spot" -> "Spot Clean"
      [] mode = "edge" -> "Edge Clean"
      [] mode = "single" -> "Single Room"

\* The fan speeds a caller passes: the display names and an unknown one.
FanSpeeds ==
    { FAN_SPEED_MAP(FAN_SPEED_MODES[i]) : i \in 1..Len(FAN_SPEED_MODES) }
      \cup {"Hurricane"}

\* `for mode, display in FAN_SPEED_MAP.items(): if display == fan_speed:
\* internal_mode = mode; break`, None when no display name matches.
RECURSIVE InternalMode(_, _)
InternalMode(fan_speed, i) ==
    IF i > Len(FAN_SPEED_MODES) THEN "None"
    ELSE IF FAN_SPEED_MAP(FAN_SPEED_MODES[i]) = fan_speed
         THEN FAN_SPEED_MODES[i]
    ELSE InternalMode(fan_speed, i + 1)

\* The argument each SmartThingsVacuum operation with one command sends
\* through the cleaning-mode and through the movement capability
\* (async_clean_spot has no movement branch).
CleaningModeArgument(op) ==
    CASE op = "async_start" -> "auto"
      [] op = "async_pause" -> "pause"
      [] op = "async_stop" -> "stop"
      [] op = "async_return_to_base" -> "homing"
      [] op = "async_clean_spot" -> "spot"

MovementArgument(op) ==
    CASE op = "async_start" -> "cleaning"
      [] op = "async_pause" -> "paused"
      [] op = "async_stop" -> "idle"
      [] op = "async_return_to_base" -> "homing"
      [] op = "async_clean_spot" -> "None"

\* What a command operation leaves alone.
CommandFrame ==
    UNCHANGED <<assignVars, setupVars, brokerVars, handlerVars, entityVars,
                tokenVars, entryVars, restVars>>

\* No operation is awaiting a command.
NoCall == invocation.pc \in {"idle", "done"}

\* The operation returns to its caller.
Ended(op, caps, end) ==
    [IdleCall EXCEPT !.op = op, !.pc = "done", !.capabilities = caps,
                     !.end = end]

\* The operation awaits a device command.
Awaiting(op, caps, pc) ==
    [IdleCall EXCEPT !.op = op, !.pc = pc, !.capabilities = caps]

\* The capability sets a vacuum entity is created with: the non-empty
\* results of get_vacuum_capabilities.
VacuumCapabilitySets == (SUBSET CAPABILITY_TO_VACUUM) \ {{}}

\* The operations with the movement capability tried first.
VacuumCallPreferringMovement(op) ==
    /\ NoCall
    /\ \E caps \in VacuumCapabilitySets :
           IF "robot_cleaner_movement" \in caps /\ op # "async_clean_spot"
           THEN /\ invocation' = Awaiting(op, caps, "command")
                /\ sent' = <<DeviceCommand("robot_cleaner_movement",
                                           "setRobotCleanerMovement",
                                           MovementArgument(op))>>
           ELSE IF "robot_cleaner_cleaning_mode" \in caps
           THEN /\ invocation' = Awaiting(op, caps, "command")
                /\ sent' = <<DeviceCommand("robot_cleaner_cleaning_mode",
                                           "setRobotCleanerCleaningMode",
                                           CleaningModeArgument(op))>>
           ELSE /\ invocation' = Ended(op, caps, "returned")
                /\ sent' = <<>>
    /\ CommandFrame

\* async_start, async_pause, async_stop, async_return_to_base and
\* async_clean_spot up to the await: the cleaning-mode command when the
\* entity has that capability, else the movement command, else the logged
\* return.
VacuumCall(op) ==
    /\ NoCall
    /\ \E caps \in VacuumCapabilitySets :
           IF "robot_cleaner_cleaning_mode" \in caps
           THEN /\ invocation' = Awaiting(op, caps, "command")
                /\ sent' = <<DeviceCommand("robot_cleaner_cleaning_mode",
                                           "setRobotCleanerCleaningMode",
                                           CleaningModeArgument(op))>>
           ELSE IF "robot_cleaner_movement" \in caps /\ op # "async_clean_spot"
           THEN /\ invocation' = Awaiting(op, caps, "command")
                /\ sent' = <<DeviceCommand("robot_cleaner_movement",
                                           "setRobotCleanerMovement",
                                           MovementArgument(op))>>
           ELSE /\ invocation' = Ended(op, caps, "returned")
                /\ sent' = <<>>
    /\ CommandFrame

async_start == VacuumCall("async_start")

async_pause == VacuumCall("async_pause")

async_stop == VacuumCall("async_stop")

async_return_to_base == VacuumCall("async_return_to_base")

async_clean_spot == VacuumCall("async_clean_spot")

\* A cleaning-mode part that sends the display name.
SetCleaningModeToDisplayName(inv, commands) ==
    IF "robot_cleaner_cleaning_mode" \in inv.capabilities
    THEN /\ invocation' = [inv EXCEPT !.pc = "command"]
         /\ sent' = Append(commands,
                           DeviceCommand("robot_cleaner_cleaning_mode",
                                         "setRobotCleanerCleaningMode",
                                         inv.fan_speed))
    ELSE /\ invocation' = [inv EXCEPT !.pc = "done", !.result = "truthy",
                                      !.written = TRUE, !.end = "returned"]
         /\ sent' = commands

\* The cleaning-mode part of async_set_fan_speed: the command is sent when
\* the entity has the capability; otherwise result = True and the state is
\* written.
SetCleaningMode(inv, commands) ==
    IF "robot_cleaner_cleaning_mode" \in inv.capabilities
    THEN /\ invocation' = [inv EXCEPT !.pc = "command"]
         /\ sent' = Append(commands,
                           DeviceCommand("robot_cleaner_cleaning_mode",
                                         "setRobotCleanerCleaningMode",
                                         inv.internal_mode))
    ELSE /\ invocation' = [inv EXCEPT !.pc = "done", !.result = "truthy",
                                      !.written = TRUE, !.end = "returned"]
         /\ sent' = commands

\* async_set_fan_speed(fan_speed) up to its first await: the reverse lookup
\* in FAN_SPEED_MAP, then the turbo command when the device has the turbo
\* capability ("on" for turbo, "off" for every other mode).
async_set_fan_speed ==
    /\ NoCall
    /\ \E caps \in VacuumCapabilitySets :
       \E turbo \in BOOLEAN :
       \E fan_speed \in FanSpeeds :
           LET internal_mode == InternalMode(fan_speed, 1)
               inv == [IdleCall EXCEPT !.op = "async_set_fan_speed",
                                       !.capabilities = caps,
                                       !.turbo = turbo,
                                       !.fan_speed = fan_speed,
                                       !.internal_mode = internal_mode]
           IN  IF internal_mode = "None"
               THEN /\ invocation' = [inv EXCEPT !.pc = "done",
                                                 !.end = "returned"]
                    /\ sent' = <<>>
               ELSE IF turbo
               THEN /\ invocation' = [inv EXCEPT !.pc = "turbo"]
                    /\ sent' = <<DeviceCommand(
                                   "robot_cleaner_turbo_mode",
                                   "setRobotCleanerTurboMode",
                                   IF internal_mode = "turbo" THEN "on"
                                   ELSE "off")>>
               ELSE SetCleaningMode(inv, <<>>)
    /\ CommandFrame

\* The turbo command of async_set_fan_speed returns; its value is kept as
\* result only for the turbo mode.
TurboCommandReturns ==
    /\ invocation.pc = "turbo"
    /\ \E value \in {"truthy", "falsy"} :
           SetCleaningMode(
               [invocation EXCEPT
                  !.result = IF invocation.internal_mode = "turbo"
                             THEN value ELSE @],
               sent)
    /\ CommandFrame

\* SmartThingsButton.async_press up to the await of
\* self._device.command("main", self._capability, self._command, []).
async_press ==
    /\ NoCall
    /\ \E capability \in CAPABILITY_TO_BUTTON :
       \E command \in ButtonCommands(capability) :
           /\ invocation' = Awaiting("async_press", {capability}, "command")
           /\ sent' = <<DeviceCommand(capability, command, "None")>>
    /\ CommandFrame

\* send_command_service(call): the two early returns (a missing device_id,
\* capability or command; no config entry), else the await of
\* api.execute_device_command.
send_command_service ==
    /\ NoCall
    /\ \E has_arguments \in BOOLEAN :
       \E has_entries \in BOOLEAN :
           IF has_arguments /\ has_entries
           THEN /\ invocation' = Awaiting("send_command_service", {"switch"},
                                          "command")
                /\ sent' = <<DeviceCommand("switch", "on", "None")>>
           ELSE /\ invocation' = Ended("send_command_service", {}, "returned")
                /\ sent' = <<>>
    /\ CommandFrame

\* The awaited command returns a value.  The vacuum operations write the
\* state when it is truthy and log otherwise; the button and the service
\* log and return.
CommandReturns ==
    /\ invocation.pc = "command"
    /\ \E value \in {"truthy", "falsy"} :
           invocation' =
               [invocation EXCEPT
                  !.pc = "done",
                  !.result = value,
                  !.written = /\ value = "truthy"
                              /\ invocation.op \notin {"async_press",
                                                       "send_command_service"},
                  !.end = "returned"]
    /\ UNCHANGED sent
    /\ CommandFrame

\* The awaited command raises.  Every operation catches Exception and logs;
\* async_press then re-raises, the send_command service and the vacuum
\* operations do not.
CommandRaises ==
    /\ invocation.pc \in {"command", "turbo"}
    /\ invocation' =
           [invocation EXCEPT
              !.pc = "done",
              !.api_raised = TRUE,
              !.end = IF invocation.op = "async_press" THEN "raised"
                      ELSE "returned"]
    /\ UNCHANGED sent
    /\ CommandFrame

NextCommand ==
    \/ async_press
    \/ send_command_service
    \/ async_start
    \/ async_pause
    \/ async_stop
    \/ async_return_to_base
    \/ async_clean_spot
    \/ async_set_fan_speed
    \/ TurboCommandReturns
    \/ CommandReturns
    \/ CommandRaises

SpecCommand == Init /\ [][NextCommand]_vars

----------------------------------------------------------------------------
(* SpecMedia: the commands of SmartThingsMediaPlayer *)

\* device.capabilities of the devices a media player is created for: some
\* capability of CAPABILITY_TO_MEDIA_PLAYER, with or without switch.
MediaDeviceCapabilitySets ==
    { caps \in SUBSET (CAPABILITY_TO_MEDIA_PLAYER \cup {"switch"}) :
        media_player_get_capabilities(caps) # {} }

\* Volume levels in thousandths; int(volume * 100) is the percentage.
VolumeLevels == {0, 555, 1000}

\* Sources passed to async_select_source, and those for which
\* source.isdigit() holds.
Sources == {"HDMI1", "12"}

isdigit(source) == source = "12"

\* The branch that is taken with the last test first.
LastPresent(branches, available) ==
    LET present == { k \in 1..Len(branches) :
                       branches[k].capability \in available }
    IN  IF present = {} THEN 0
        ELSE CHOOSE k \in present : \A j \in present : j <= k

\* The if/elif chain of a command: the first branch whose capability is in
\* the tested capability list, 0 for the else branch.
FirstPresent(branches, available) ==
    LET present == { k \in 1..Len(branches) :
                       branches[k].capability \in available }
    IN  IF present = {} THEN 0
        ELSE CHOOSE k \in present : \A j \in present : k <= j

\* A command method up to its await: the command of the branch taken is
\* sent; the else branch logs a warning and returns.  async_turn_on and
\* async_turn_off test self._device.capabilities, the others
\* self._capabilities.
MediaCall(op, device_capabilities, branches) ==
    LET entity_capabilities ==
            media_player_get_capabilities(device_capabilities)
        available == IF op \in {"async_turn_on", "async_turn_off"}
                     THEN device_capabilities ELSE entity_capabilities
        k == FirstPresent(branches, available)
    IN  /\ NoCall
        /\ invocation' =
             [(IF k = 0 THEN Ended(op, entity_capabilities, "returned")
               ELSE Awaiting(op, entity_capabilities, "media_command"))
                EXCEPT !.device_capabilities = device_capabilities]
        /\ sent' = IF k = 0 THEN <<>> ELSE <<branches[k]>>
        /\ CommandFrame

async_turn_on ==
    \E caps \in MediaDeviceCapabilitySets :
        MediaCall("async_turn_on", caps,
                  <<DeviceCommand("switch", "on", "None")>>)

async_turn_off ==
    \E caps \in MediaDeviceCapabilitySets :
        MediaCall("async_turn_off", caps,
                  <<DeviceCommand("switch", "off", "None")>>)

async_set_volume_level ==
    \E caps \in MediaDeviceCapabilitySets : \E volume \in VolumeLevels :
        MediaCall("async_set_volume_level", caps,
                  <<DeviceCommand("audio_volume", "setVolume",
                                  volume \div 10)>>)

async_volume_up ==
    \E caps \in MediaDeviceCapabilitySets :
        MediaCall("async_volume_up", caps,
                  <<DeviceCommand("audio_volume", "volumeUp", "None")>>)

async_volume_down ==
    \E caps \in MediaDeviceCapabilitySets :
        MediaCall("async_volume_down", caps,
                  <<DeviceCommand("audio_volume", "volumeDown", "None")>>)

async_mute_volume ==
    \E caps \in MediaDeviceCapabilitySets : \E mute \in BOOLEAN :
        MediaCall("async_mute_volume", caps,
                  <<DeviceCommand("audio_volume",
                                  IF mute THEN "mute" ELSE "unmute",
                                  "None")>>)

async_media_play ==
    \E caps \in MediaDeviceCapabilitySets :
        MediaCall("async_media_play", caps,
                  <<DeviceCommand("media_playback", "play", "None")>>)

async_media_pause ==
    \E caps \in MediaDeviceCapabilitySets :
        MediaCall("async_media_pause", caps,
                  <<DeviceCommand("media_playback", "pause", "None")>>)

async_media_stop ==
    \E caps \in MediaDeviceCapabilitySets :
        MediaCall("async_media_stop", caps,
                  <<DeviceCommand("media_playback", "stop", "None")>>)

async_media_next_track ==
    \E caps \in MediaDeviceCapabilitySets :
        MediaCall("async_media_next_track", caps,
                  <<DeviceCommand("media_playback", "fastForward", "None"),
                    DeviceCommand("tv_channel", "channelUp", "None")>>)

async_media_previous_track ==
    \E caps \in MediaDeviceCapabilitySets :
        MediaCall("async_media_previous_track", caps,
                  <<DeviceCommand("media_playback", "rewind", "None"),
                    DeviceCommand("tv_channel", "channelDown", "None")>>)

async_select_source ==
    \E caps \in MediaDeviceCapabilitySets : \E source \in Sources :
        MediaCall("async_select_source", caps,
                  <<DeviceCommand("media_input_source", "setInputSource",
                                  source),
                    DeviceCommand("tv_channel",
                                  IF isdigit(source) THEN "setTvChannel"
                                  ELSE "setTvChannelName",
                                  source)>>)

\* The awaited command returns; its value is not looked at and the method
\* returns.
MediaCommandReturns ==
    /\ invocation.pc = "media_command"
    /\ \E value \in {"truthy", "falsy"} :
           invocation' = [invocation EXCEPT !.pc = "done", !.result = value,
                                            !.end = "returned"]
    /\ UNCHANGED sent
    /\ CommandFrame

\* The awaited command raises: no try statement encloses it and the
\* exception leaves the method.
MediaCommandRaises ==
    /\ invocation.pc = "media_command"
    /\ invocation' = [invocation EXCEPT !.pc = "done", !.api_raised = TRUE,
                                        !.end = "raised"]
    /\ UNCHANGED sent
    /\ CommandFrame

NextMedia ==
    \/ async_turn_on
    \/ async_turn_off
    \/ async_set_volume_level
    \/ async_volume_up
    \/ async_volume_down
    \/ async_mute_volume
    \/ async_media_play
    \/ async_media_pause
    \/ async_media_stop
    \/ async_media_next_track
    \/ async_media_previous_track
    \/ async_select_source
    \/ MediaCommandReturns
    \/ MediaCommandRaises

SpecMedia == Init /\ [][NextMedia]_vars

\* C15: whenever the command an operation sent has raised, the operation
\* ends by raising to its caller.
C15_CommandFailureReraised ==
    (invocation.pc = "done" /\ invocation.api_raised)
        => invocation.end = "raised"

----------------------------------------------------------------------------
(* Claims about the scheduling of _event_handler *)

\* The device ids named by the device events of a batch.
BatchDevices(events) ==
    { events[k].device_id : k \in { j \in 1..Len(events) :
                                      events[j].event_type = EVENT_TYPE_DEVICE } }

\* A step taken while an invocation is between its call and its dispatch.
C17_RunningStep ==
    handler.pc \in {"check", "loop"} =>
        /\ handler'.pc \in {"loop", "returned"}
        /\ handler'.req = handler.req
        /\ UNCHANGED <<brokerVars, query>>
        /\ status' # status =>
               /\ handler.pc = "loop"
               /\ handler.i <= Len(handler.req.events)
               /\ status' = apply_attribute_update(
                                status, handler.req.events[handler.i])

\* A step taken while no invocation is between its call and its dispatch.
C17_QuietStep ==
    handler.pc \in {"idle", "returned"} =>
        /\ status' = status
        /\ dispatched' = dispatched \/ dispatched' = <<>>

\* C17: from the call of _event_handler to its dispatch every step belongs
\* to that invocation and its batch (no other batch is started, no other
\* callback of the broker runs, and a status changes only by the batch's
\* current event); outside of that no status changes and nothing is
\* dispatched; and a returned invocation has named only devices of its own
\* batch.
C17_BatchesNotInterleaved ==
    /\ [][C17_RunningStep /\ C17_QuietStep]_vars
    /\ [](handler.pc = "returned"
            => \A k \in 1..Len(dispatched) :
                   dispatched[k] \subseteq BatchDevices(handler.req.events))

\* A second batch, for d2 alone, has returned after an earlier batch changed
\* d1: its one dispatch names d2 only.
C17_Witness ==
    /\ handler.pc = "returned"
    /\ handler.req.installed_app_id = InstalledAppId
    /\ BatchDevices(handler.req.events) = {"d2"}
    /\ status["d1"]["switch"] = "pushed"
    /\ status["d2"]["switch"] = "pushed"
    /\ dispatched = <<{"d2"}>>

----------------------------------------------------------------------------
(* Claims about the life cycle of the entry's broker *)

\* A step in which async_unload_entry returns.
UnloadReturns == setup'.pc = "idle" /\ setup'.result = "unloaded"

\* C21: over setups, retries, unloads and reloads of the entry the token
\* timer and the event subscription are registered exactly while a broker
\* is stored for the entry, once each; an unload that finds no stored broker
\* invokes no remover and leaves the platforms unloaded.
C21_ActiveWhileStored ==
    /\ [](stored <=> (timers = 1 /\ handlers = 1))
    /\ [](~stored <=> (timers = 0 /\ handlers = 0))
    /\ [][UnloadReturns => ~stored' /\ ~forwarded']_vars
    /\ [][(UnloadReturns /\ ~stored)
            => timers' = timers /\ handlers' = handlers]_vars

\* A reloaded entry has been unloaded again, and then unloaded once more
\* with no broker stored.
C21_Witness ==
    /\ setup.pc = "idle"
    /\ setup.result = "unloaded"
    /\ setup.loads = 2
    /\ ~stored
    /\ timers = 0
    /\ handlers = 0

----------------------------------------------------------------------------
(* Claims about forced re-configuration *)

\* A step in which async_setup_entry takes its remove_entry branch or
\* async_migrate_entry is called.
ForcesReconfiguration ==
    \/ setup'.remove_entry /\ ~setup.remove_entry
    \/ migrations' # migrations

\* The removal is scheduled by the step, and a flow task is created by it
\* exactly when no flow of the domain is in progress.
RemovesAndInitiates ==
    /\ \/ removal_scheduled' /\ ~removal_scheduled
       \/ \E entry \in DOMAIN migrations' \ DOMAIN migrations :
              migrations'[entry].removal_scheduled
    /\ flows_initiated' = IF flow_in_progress THEN flows_initiated
                          ELSE flows_initiated + 1

\* Every call of async_migrate_entry has returned False.
MigrationsReturnFalse ==
    \A entry \in DOMAIN migrations : migrations[entry].result = "False"

----------------------------------------------------------------------------
(* Claims about async_remove_entry *)

\* The delete request `call` of the running invocation ended without an
\* exception leaving the function.
Deleted(call) ==
    /\ call \in Range(removal.requests)
    /\ removal.pc # call
    /\ \A e \in Range(removal.errors) : e[1] = call => e[2] = FORBIDDEN

\* C23: every invocation requests the deletion of the installed app first,
\* and once; the app deletion is requested only with at most one entry
\* referencing the app id; unload_smartapp_endpoint is called only after
\* the app was deleted and with exactly one entry of the domain.
C23_DeletesOnlyUnreferencedApp ==
    /\ removal.pc # "idle"
         => /\ Head(removal.requests) = "delete_installed_app"
            /\ \A i \in 2..Len(removal.requests) :
                   removal.requests[i] # "delete_installed_app"
    /\ "delete_app" \in Range(removal.requests)
         => /\ Deleted("delete_installed_app")
            /\ removal.app_count \in {0, 1}
    /\ "unload_smartapp_endpoint" \in Range(removal.requests)
         => /\ Deleted("delete_app")
            /\ removal.all_entries = 1

\* The entry was the only one: installed app and app were deleted and the
\* endpoint unloaded.
C23_Witness ==
    /\ removal.pc = "done"
    /\ removal.requests =
         <<"delete_installed_app", "delete_app", "unload_smartapp_endpoint">>
    /\ removal.errors = <<>>
    /\ removal.all_entries = 1
    /\ removal.app_count = 1

\* The error the step adds to the ones of the running invocation.
RemovalFails(call, ex) ==
    /\ removal.pc = call
    /\ removal'.errors = Append(removal.errors, <<call, ex>>)

\* C24: a 403 of either delete request does not leave the function, which
\* goes on with its next step; any other response status leaves the
\* function at once, with no later delete request and no endpoint unload.
C24_ForbiddenAbsorbedOthersPropagate ==
    /\ [][RemovalFails("delete_installed_app", FORBIDDEN)
            => /\ removal'.result # "raised"
               /\ IF removal'.app_count > 1
                  THEN removal'.pc = "done"
                         /\ removal'.requests = removal.requests
                  ELSE removal'.pc = "delete_app"
                         /\ removal'.requests =
                              Append(removal.requests, "delete_app")]_vars
    /\ [][RemovalFails("delete_app", FORBIDDEN)
            => /\ removal'.result # "raised"
               /\ IF removal.all_entries = 1
                  THEN removal'.requests =
                         Append(removal.requests, "unload_smartapp_endpoint")
                  ELSE removal'.pc = "done"
                         /\ removal'.requests = removal.requests]_vars
    /\ [][\A call \in {"delete_installed_app", "delete_app"} :
          \A ex \in ResponseErrors \ {FORBIDDEN} :
            RemovalFails(call, ex)
              => /\ removal'.pc = "done"
                 /\ removal'.result = "raised"
                 /\ removal'.requests = removal.requests]_vars
    /\ [](removal.result = "raised"
            => /\ removal.pc = "done"
               /\ "unload_smartapp_endpoint" \notin Range(removal.requests)
               /\ removal.errors[Len(removal.errors)][1]
                    = removal.requests[Len(removal.requests)])

\* The installed app was already removed (403) and the app deletion was
\* refused with 401, which left the function.
C24_Witness ==
    /\ removal.pc = "done"
    /\ removal.result = "raised"
    /\ removal.errors = << <<"delete_installed_app", FORBIDDEN>>,
                           <<"delete_app", UNAUTHORIZED>> >>
    /\ removal.requests = <<"delete_installed_app", "delete_app">>

----------------------------------------------------------------------------
(* Claims about the refresh_device service *)

\* C25: a service call that ended after a successful status refresh sent
\* exactly one signal, carrying the set of the one device id, and the device
\* was one of a broker; a call without a device id, for a device of no
\* broker or with a failed refresh sent none; no call raised; and no signal
\* is sent before the refresh has returned.
C25_OneDispatchAfterRefresh ==
    /\ ~refresh.raised
    /\ refresh.pc = "refresh"
         => /\ dispatched = <<>>
            /\ refresh.device_id \in devices
    /\ refresh.pc = "done"
         => IF refresh.outcome = "refreshed"
            THEN /\ dispatched = << {refresh.device_id} >>
                 /\ refresh.device_id \in devices
            ELSE /\ dispatched = <<>>
                 /\ \/ refresh.outcome = "failed"
                    \/ refresh.device_id \in {"None", ""}
                    \/ refresh.device = "None"

\* The second call refreshed d1 and sent its one signal.
C25_Witness ==
    /\ refresh.pc = "done"
    /\ refresh.n = 2
    /\ refresh.outcome = "refreshed"
    /\ dispatched = << {"d1"} >>

----------------------------------------------------------------------------
(* Claims about the number and select commands *)

\* The step in which the awaited command of a number or select ends.
SettingEnds == setting.pc = "command" /\ setting'.pc = "done"

\* C26: when the command of async_set_native_value or async_select_option
\* returns a truthy result, the value that was sent is written into the
\* attribute of the device status, whatever a push event put there while
\* the command was awaited, and the state is written; when it returns a
\* falsy result or raises, the status is left as it is and no state is
\* written.
C26_StatusWrittenOnSuccess ==
    [][SettingEnds =>
         IF setting'.result = "True"
         THEN /\ status' = [status EXCEPT
                              ![setting.device_id][setting.attribute] =
                                  sent[1].argument[1]]
              /\ status'[setting.device_id][setting.attribute]
                   = sent'[1].argument[1]
              /\ setting'.written
         ELSE /\ status' = status
              /\ ~setting'.written]_vars

\* A refrigerator setpoint of -1.5 was sent as -1 while a push event put
\* another value into the status, and the status holds -1.
C26_Witness ==
    /\ setting.pc = "done"
    /\ setting.op = "async_set_native_value"
    /\ setting.result = "True"
    /\ setting.overtaken
    /\ setting.written
    /\ sent[1].argument = <<-10>>
    /\ status["d1"]["refrigeration_setpoint"] = -10

----------------------------------------------------------------------------
(* Claims about the vacuum commands *)

\* The four operations that use either vacuum capability.
VacuumOperations ==
    {"async_start", "async_pause", "async_stop", "async_return_to_base"}

ModesNamed(fan_speed) ==
    { mode \in Range(FAN_SPEED_MODES) : FAN_SPEED_MAP(mode) = fan_speed }

\* C29: no two modes of FAN_SPEED_MAP share a display name; every
\* async_set_fan_speed call with a display name of the map resolves it to
\* the one mode with that name, which is what the cleaning-mode command
\* carries; a call with any other fan speed sends no command and writes no
\* state.
C29_DisplayNamesResolveBack ==
    /\ \A i, j \in 1..Len(FAN_SPEED_MODES) :
           FAN_SPEED_MAP(FAN_SPEED_MODES[i]) = FAN_SPEED_MAP(FAN_SPEED_MODES[j])
             => i = j
    /\ invocation.op = "async_set_fan_speed"
         => IF ModesNamed(invocation.fan_speed) # {}
            THEN /\ ModesNamed(invocation.fan_speed)
                      = {invocation.internal_mode}
                 /\ \A k \in 1..Len(sent) :
                        sent[k].capability = "robot_cleaner_cleaning_mode"
                          => sent[k].argument = invocation.internal_mode
            ELSE /\ invocation.pc = "done"
                 /\ sent = <<>>
                 /\ ~invocation.written

\* "Spot Clean" was resolved to spot and sent as the cleaning mode, and the
\* state written.
C29_Witness ==
    /\ invocation.op = "async_set_fan_speed"
    /\ invocation.pc = "done"
    /\ invocation.fan_speed = "Spot Clean"
    /\ invocation.internal_mode = "spot"
    /\ Len(sent) = 1
    /\ sent[1] = DeviceCommand("robot_cleaner_cleaning_mode",
                               "setRobotCleanerCleaningMode", "spot")
    /\ invocation.written

----------------------------------------------------------------------------
(* Claims about the media player commands *)

\* The capabilities a command may go through, in order of preference.
Suitable(op) ==
    CASE op \in {"async_turn_on", "async_turn_off"} -> <<"switch">>
      [] op \in {"async_set_volume_level", "async_volume_up",
                 "async_volume_down", "async_mute_volume"}
           -> <<"audio_volume">>
      [] op \in {"async_media_play", "async_media_pause", "async_media_stop"}
           -> <<"media_playback">>
      [] op \in {"async_media_next_track", "async_media_previous_track"}
           -> <<"media_playback", "tv_channel">>
      [] op = "async_select_source" -> <<"media_input_source", "tv_channel">>
      [] OTHER -> <<>>

\* C27: every media player command sends at most one device command, and
\* sends it through the first suitable capability that is present: switch
\* on the device for turn on and off; audio_volume, media_playback,
\* media_input_source or tv_channel in the entity's list for the others,
\* with media_playback before tv_channel for the track commands and
\* media_input_source before tv_channel for the source; with no suitable
\* capability present nothing is sent.
C27_AtMostOneCommandByCapability ==
    Suitable(invocation.op) # <<>>
      => LET available ==
                 IF invocation.op \in {"async_turn_on", "async_turn_off"}
                 THEN invocation.device_capabilities
                 ELSE invocation.capabilities
             suitable == Suitable(invocation.op)
         IN  /\ Len(sent) <= 1
             /\ IF \A k \in 1..Len(suitable) : suitable[k] \notin available
                THEN sent = <<>> /\ invocation.pc = "done"
                ELSE /\ Len(sent) = 1
                     /\ sent[1].capability \in available
                     /\ \E k \in 1..Len(suitable) :
                          /\ sent[1].capability = suitable[k]
                          /\ \A j \in 1..(k - 1) : suitable[j] \notin available

\* A player with media_playback and tv_channel went to the next track
\* through media_playback.
C27_Witness ==
    /\ invocation.op = "async_media_next_track"
    /\ invocation.pc = "done"
    /\ invocation.capabilities = {"media_playback", "tv_channel"}
    /\ sent = <<DeviceCommand("media_playback", "fastForward", "None")>>

----------------------------------------------------------------------------
(* SmartThingsEntity: error tracking and health status                      *)

\* Largest number of async_update_ha_state calls the model follows.
MaxHealthUpdates == 3

\* The device whose entity is followed has a switch.
HealthCapabilities ==
    [d \in DeviceIds |-> IF d = "d1" THEN {"switch"} ELSE {}]

\* str(ex) of the exceptions an update raises: an exception constructed
\* without arguments, such as asyncio.TimeoutError(), has the empty string.
ExceptionMessages == {"", "timeout"}

\* The device statuses the entity may be created on.
DeviceStatuses ==
    { DeviceHealth(sw[1], sw[2], b[1], b[2], lqi, rssi) :
        sw \in {<<FALSE, "None">>, <<TRUE, "on">>, <<TRUE, "unavailable">>},
        b \in {<<FALSE, {}>>, <<TRUE, {}>>, <<TRUE, {5}>>, <<TRUE, {20}>>,
               <<TRUE, {80}>>},
        lqi \in {{}, {0}, {20}, {70}},
        rssi \in {{}, {-60}} }

\* State after async_setup_entry and async_added_to_hass of the entity of
\* d1, created on some device status.
InitHealth ==
    /\ Constructed(EntityPlatforms, HealthCapabilities)
    /\ setup_idx = Len(EntityPlatforms) + 1
    /\ entities = SwitchEntities
    /\ _regenerate_token_remove = "remover"
    /\ _event_disconnect = "remover"
    /\ timers = 1
    /\ handlers = 1
    /\ unloaded = FALSE
    /\ InitHandler
    /\ hass_state = [e \in entities |-> "added"]
    /\ _dispatcher_remove = [e \in entities |-> "remover"]
    /\ connected = entities
    /\ tasks = <<>>
    /\ _update_count = [e \in entities |-> 0]
    /\ InitToken
    /\ InitEntry
    /\ InitCommand
    /\ migrations = << >>
    /\ removal = IdleRemoval(0)
    /\ refresh = IdleRefresh(0)
    /\ setting = IdleSetting(0)
    /\ \E device_status \in DeviceStatuses :
         diagnostics = IdleDiagnostics(device_status)

\* The entity whose updates are followed.
HealthEntity == CHOOSE e \in entities : e.device_id = "d1"

\* SmartThingsEntity.available: a status with a switch_state is available
\* unless that state is "unavailable"; any other status is available.
available(d) ==
    IF d.status.has_switch_state
    THEN d.status.switch_state # "unavailable"
    ELSE TRUE

\* Python's `a or b` on optional numbers: None and 0 are falsy.
Or(a, b) == IF a = {} \/ a = {0} THEN b ELSE a

\* SmartThingsEntity._get_health_status
_get_health_status(d) ==
    LET signal_strength == Or(d.status.lqi, d.status.rssi)
    IN  IF ~available(d) THEN "unavailable"
        ELSE IF d._error_count > 0 /\ d._last_error \notin {"None", ""}
        THEN "error"
        ELSE IF d.status.has_battery
                  /\ \E battery_level \in d.status.battery : battery_level < 10
        THEN "critical"
        ELSE IF d.status.has_battery
                  /\ \E battery_level \in d.status.battery : battery_level < 25
        THEN "warning"
        ELSE IF \E s \in signal_strength : s < 30
        THEN "warning"
        ELSE "ok"

\* What an update of the entity leaves alone.
HealthFrame ==
    UNCHANGED <<assignVars, setupVars, brokerVars, handlerVars, hass_state,
                _dispatcher_remove, connected, tasks, tokenVars, entryVars,
                commandVars, besidesDiagnostics>>

\* async_update_ha_state up to the await of line 1048: the time of the
\* update is noted and the update counted.
async_update_ha_state ==
    /\ diagnostics.pc = "idle"
    /\ _update_count[HealthEntity] < MaxHealthUpdates
    /\ \E force_refresh \in BOOLEAN :
         diagnostics' = [diagnostics EXCEPT !.pc = "super",
                                            !.force_refresh = force_refresh,
                                            !._last_update_time = "now"]
    /\ _update_count' = [_update_count EXCEPT ![HealthEntity] = @ + 1]
    /\ HealthFrame

\* A successful update that also forgets the errors.
SuperUpdateReturnsClearingErrors ==
    /\ diagnostics.pc = "super"
    /\ diagnostics' = [diagnostics EXCEPT !.pc = "idle",
                                          !._error_count = 0,
                                          !._last_error = "None",
                                          !.last_outcome = "returned"]
    /\ UNCHANGED _update_count
    /\ HealthFrame

\* super().async_update_ha_state(force_refresh) returns: the try block ends
\* and nothing of the error tracking is touched.
SuperUpdateReturns ==
    /\ diagnostics.pc = "super"
    /\ diagnostics' = [diagnostics EXCEPT !.pc = "idle",
                                          !.last_outcome = "returned"]
    /\ UNCHANGED _update_count
    /\ HealthFrame

\* super().async_update_ha_state(force_refresh) raises ex: the error is
\* counted, str(ex) kept as the last error, and ex raised again.
SuperUpdateRaises ==
    /\ diagnostics.pc = "super"
    /\ \E message \in ExceptionMessages :
         diagnostics' = [diagnostics EXCEPT
                           !.pc = "idle",
                           !._error_count = @ + 1,
                           !._last_error = message,
                           !.messages = Append(@, message),
                           !.last_outcome = "raised"]
    /\ UNCHANGED _update_count
    /\ HealthFrame

\* The device reports another state of its switch: the status that has a
\* switch_state holds the new one.
SwitchStateChanges ==
    /\ diagnostics.status.has_switch_state
    /\ \E switch_state \in {"on", "unavailable"} :
         /\ switch_state # diagnostics.status.switch_state
         /\ diagnostics' = [diagnostics EXCEPT
                              !.status.switch_state = switch_state]
    /\ UNCHANGED _update_count
    /\ HealthFrame

NextHealth ==
    \/ async_update_ha_state
    \/ SuperUpdateReturns
    \/ SuperUpdateRaises
    \/ SwitchStateChanges

SpecHealth == InitHealth /\ [][NextHealth]_vars

----------------------------------------------------------------------------
(* Claims about the error tracking of an entity *)

\* Some update has failed with a non-empty error message.
FailedWithMessage ==
    \E k \in 1..Len(diagnostics.messages) : diagnostics.messages[k] # ""

\* C30 as stated: once one update has failed with a non-empty message, the
\* health status of the available entity is "error" ever after.
C30_ErrorEverAfterFailure ==
    FailedWithMessage /\ available(diagnostics)
      => _get_health_status(diagnostics) = "error"

\* C30: the error tracking is never reset: error_count is the number of
\* failed updates and never decreases, last_error is the message of the
\* latest failed update and changes only when an update fails, so updates
\* that succeed leave the health status of an available entity at "error";
\* the status is "error" exactly while the latest failed update had a
\* non-empty message.
C30_ErrorWhileLatestFailureHasMessage ==
    /\ [](LET d == diagnostics
              n == Len(d.messages)
          IN  /\ d._error_count = n
              /\ d._last_error = IF n = 0 THEN "None" ELSE d.messages[n]
              /\ available(d)
                   => (_get_health_status(d) = "error"
                         <=> n > 0 /\ d.messages[n] # ""))
    /\ [][/\ diagnostics'._error_count >= diagnostics._error_count
          /\ diagnostics'._last_error # diagnostics._last_error
               => /\ diagnostics.pc = "super"
                  /\ diagnostics'.last_outcome = "raised"
                  /\ diagnostics'._error_count = diagnostics._error_count + 1
          /\ diagnostics'.last_outcome = "returned"
               /\ diagnostics.pc = "super" /\ diagnostics'.pc = "idle"
               /\ available(diagnostics)
               /\ available(diagnostics')
               => (_get_health_status(diagnostics') = "error"
                     <=> _get_health_status(diagnostics) = "error")]_vars

\* One update failed with "timeout", two later updates succeeded, and the
\* available entity is still in error.
C30_Witness ==
    /\ diagnostics.pc = "idle"
    /\ diagnostics.messages = <<"timeout">>
    /\ diagnostics.last_outcome = "returned"
    /\ _update_count[HealthEntity] = 3
    /\ available(diagnostics)
    /\ _get_health_status(diagnostics) = "error"

====
